---------------------------- MODULE Spec2Model ----------------------------
(***************************************************************************)
(* A model of the utility-bot repository: the Discord "interactions        *)
(* endpoint" servers of src/index.js and src/unnamed/part_001 (signature   *)
(* verification, JSON decoding, command routing, the command handlers and  *)
(* the REST calls they await).                                             *)
(*                                                                         *)
(* Text is modelled as sequences of tokens.  A header is a sequence of     *)
(* one-character tokens; a request body is the sequence of JSON tokens it  *)
(* is made of.  JavaScript values are tagged records (JUndef, JNull, ...). *)
(***************************************************************************)
EXTENDS Integers, Sequences, FiniteSets, TLC

(***************************************************************************)
(* Bounds of the model.                                                    *)
(***************************************************************************)
\* Length in bytes of a signature.  Ed25519 signatures are 64 bytes long; the
\* model keeps the structure (a fixed length that every other length misses)
\* at a small scale.
SigLen == 2
\* Number of request slots (HTTP connections that can be open at once).
MaxSlots == 1
\* Number of requests the server receives in a run.
MaxRequests == 2
\* Number of AutoMod rules the platform creates in a run; further creations
\* fail.
MaxRules == 3
\* Number of interactions the HTTP server handles at once in the
\* specification of concurrent requests.
MaxConc == 2

(***************************************************************************)
(* Program constants.                                                      *)
(***************************************************************************)
\* publicKeyToPemFromHex / ed25519PublicKeyPemFromHex: key.length !== 32
KeyLen == 32
\* flags: 64 marks a message ephemeral
EPHEMERAL == 64
\* Interaction type 1 (PING) and interaction response types
PING == 1
PONG == 1
CHANNEL_MESSAGE_WITH_SOURCE == 4
\* the length the catch block of the gateway bot cuts an error's message to
ErrorTextMax == 1800

(***************************************************************************)
(* Tokens.                                                                 *)
(***************************************************************************)
P(c) == [k |-> "p", c |-> c]
S(s) == [k |-> "s", s |-> s]
\* a number literal n (h: followed by .5)
N(n) == [k |-> "n", n |-> n, h |-> FALSE]

\* Text of a header: one token per character.
RECURSIVE Text(_)
Text(cs) == IF cs = <<>> THEN <<>> ELSE <<P(Head(cs))>> \o Text(Tail(cs))

PunctTable ==
  << "{", "}", "[", "]", ":", ",", "true", "false", "null",
     "0", "1", "2", "3", "4", "5", "6", "7", "8", "9",
     "a", "b", "c", "d", "e", "f", "A", "B", "C", "D", "E", "F",
     "g", "z", " ", "-" >>

StrTable ==
  << "type", "data", "name", "options", "value", "guild_id", "channel_id",
     "member", "user", "id",
     "ping", "help", "serverinfo", "userinfo", "avatar", "purge", "setup",
     "kick", "ban", "unban", "timeout", "untimeout",
     "Kick", "bogus", "", "1",
     "view", "logs", "logging", "automod", "other",
     "count", "include_bots", "channel", "reason", "duration", "user_id",
     "delete_days", "anti_spam", "mention_spam", "mention_limit",
     "block_invites",
     "g1", "g2", "c1", "c2", "u1", "u2",
     "10m", "1d2h30m", "abc", "0m", "29d", "3s", "1h junk", " 1 D ", "because",
     "kick ", " kick", "SETUP", "View", "5s", "28d",
     "x10m", "10min", "10 M", "1h,30m", "1.5h", "m10" >>

IndexIn(seq, x) == CHOOSE i \in 1..Len(seq) : seq[i] = x

\* A number for each token, as input to the symbolic signature scheme.
Code(tok) ==
  CASE tok.k = "p" -> IndexIn(PunctTable, tok.c)
    [] tok.k = "s" -> 100 + IndexIn(StrTable, tok.s)
    [] tok.k = "n" -> 1000 + 2 * ((tok.n + 1000) % 2000) + (IF tok.h THEN 1 ELSE 0)

(***************************************************************************)
(* Buffer.from(str, "hex"): decodes pairs of hex digits up to the first    *)
(* pair that is not two hex digits; an odd last character is dropped.      *)
(***************************************************************************)
unhex(c) ==
  CASE c = "0" -> 0 [] c = "1" -> 1 [] c = "2" -> 2 [] c = "3" -> 3
    [] c = "4" -> 4 [] c = "5" -> 5 [] c = "6" -> 6 [] c = "7" -> 7
    [] c = "8" -> 8 [] c = "9" -> 9
    [] c \in {"a", "A"} -> 10 [] c \in {"b", "B"} -> 11
    [] c \in {"c", "C"} -> 12 [] c \in {"d", "D"} -> 13
    [] c \in {"e", "E"} -> 14 [] c \in {"f", "F"} -> 15
    [] OTHER -> -1

RECURSIVE HexDecodeFrom(_, _)
HexDecodeFrom(str, i) ==
  IF i >= Len(str) \div 2 THEN <<>>
  ELSE LET a == unhex(str[2 * i + 1].c)
           b == unhex(str[2 * i + 2].c)
       IN IF a = -1 \/ b = -1 THEN <<>>
          ELSE <<a * 16 + b>> \o HexDecodeFrom(str, i + 1)

BufferFromHex(str) == HexDecodeFrom(str, 0)

\* buf.toString("hex") (lower case), used by the signer of the requests.
HexDigits == <<"0", "1", "2", "3", "4", "5", "6", "7", "8", "9",
               "a", "b", "c", "d", "e", "f">>
HexDigitsUpper == <<"0", "1", "2", "3", "4", "5", "6", "7", "8", "9",
                    "A", "B", "C", "D", "E", "F">>
RECURSIVE HexWith(_, _)
HexWith(digits, bytes) ==
  IF bytes = <<>> THEN <<>>
  ELSE <<P(digits[(Head(bytes) \div 16) + 1]), P(digits[(Head(bytes) % 16) + 1])>>
       \o HexWith(digits, Tail(bytes))
ToHex(bytes) == HexWith(HexDigits, bytes)

(***************************************************************************)
(* The signature scheme, symbolically: the signature of a message under a  *)
(* key is a keyed digest of the message, SigLen bytes long, and a          *)
(* signature verifies exactly when it is that value.                       *)
(***************************************************************************)
RECURSIVE DigestUpTo(_, _, _)
DigestUpTo(acc, codes, n) ==
  IF n = 0 THEN acc
  ELSE (DigestUpTo(acc, codes, n - 1) * 131 + codes[n]) % 65521

RECURSIVE ToBytes(_, _)
ToBytes(n, len) ==
  IF len = 0 THEN <<>> ELSE Append(ToBytes(n \div 256, len - 1), n % 256)

\* the digest starts from what of the key enters it
Sign(key, msg) ==
  ToBytes(DigestUpTo((key[1] * 256 + key[Len(key)]) % 65521,
                     [i \in 1..Len(msg) |-> Code(msg[i])], Len(msg)), SigLen)

\* crypto.verify(null, msg, keyObj, sig): false for a signature of any other
\* length or value
CryptoVerify(msg, key, sig) == Len(sig) = SigLen /\ sig = Sign(key, msg)


(***************************************************************************)
(* JavaScript values.                                                      *)
(***************************************************************************)
JUndef == [t |-> "undefined"]
JNull == [t |-> "null"]
JBool(b) == [t |-> "boolean", b |-> b]
JNum(n) == [t |-> "number", n |-> n, h |-> FALSE]
JStr(s) == [t |-> "string", s |-> s]
JArr(a) == [t |-> "array", a |-> a]
JObj(o) == [t |-> "object", o |-> o]
\* the value of an expression whose evaluation threw
JThrow == [t |-> "throw"]

Nullish(v) == v.t \in {"undefined", "null"}
Thrown(v) == v.t = "throw"
\* !!v
Truthy(v) ==
  CASE v.t \in {"undefined", "null", "NaN", "throw"} -> FALSE
    [] v.t = "boolean" -> v.b
    [] v.t = "number" -> v.n # 0 \/ v.h
    [] v.t = "string" -> v.s # ""
    [] OTHER -> TRUE
\* typeof v
TypeOf(v) ==
  CASE v.t \in {"number", "NaN"} -> "number"
    [] v.t \in {"null", "array", "object"} -> "object"
    [] OTHER -> v.t
\* v === JStr(s)
IsStr(v, s) == v.t = "string" /\ v.s = s
\* v === n
IsNum(v, n) == v.t = "number" /\ ~v.h /\ v.n = n

\* v.k: a TypeError on undefined and null
Prop(v, k) ==
  IF Thrown(v) \/ Nullish(v) THEN JThrow
  ELSE IF v.t = "object" /\ k \in DOMAIN v.o THEN v.o[k]
  ELSE JUndef
\* v?.k
OptProp(v, k) == IF Nullish(v) THEN JUndef ELSE Prop(v, k)
\* v?.[0]
OptFirst(v) ==
  IF Thrown(v) THEN JThrow
  ELSE IF v.t = "array" /\ Len(v.a) >= 1 THEN v.a[1]
  ELSE JUndef
\* a || b
OrElse(a, b) == IF Thrown(a) THEN JThrow ELSE IF Truthy(a) THEN a ELSE b

\* opts.find((o) => o.name === name): a TypeError when opts has no find (it
\* is no array) or when an element reached by the search is null or undefined
RECURSIVE FindFrom(_, _, _)
FindFrom(a, i, name) ==
  IF i > Len(a) THEN JUndef
  ELSE IF Nullish(a[i]) THEN JThrow
  ELSE IF IsStr(Prop(a[i], "name"), name) THEN a[i]
  ELSE FindFrom(a, i + 1, name)
Find(opts, name) ==
  IF Thrown(opts) \/ opts.t # "array" THEN JThrow ELSE FindFrom(opts.a, 1, name)

(***************************************************************************)
(* JSON.parse over the tokens of a text.  ParseValue(toks, i) reads one    *)
(* value starting at token i: [ok, v, i] with i the next token.            *)
(***************************************************************************)
IsP(toks, i, c) == i <= Len(toks) /\ toks[i].k = "p" /\ toks[i].c = c
ParseFail == [ok |-> FALSE, v |-> JThrow, i |-> 0]

RECURSIVE ParseValue(_, _), ParseMembers(_, _, _), ParseElements(_, _, _)
ParseValue(toks, i) ==
  IF i > Len(toks) THEN ParseFail
  ELSE LET tok == toks[i] IN
    CASE tok.k = "s" -> [ok |-> TRUE, v |-> JStr(tok.s), i |-> i + 1]
      [] tok.k = "n" ->
           [ok |-> TRUE, v |-> [t |-> "number", n |-> tok.n, h |-> tok.h], i |-> i + 1]
      [] tok.k = "p" /\ tok.c = "true" -> [ok |-> TRUE, v |-> JBool(TRUE), i |-> i + 1]
      [] tok.k = "p" /\ tok.c = "false" -> [ok |-> TRUE, v |-> JBool(FALSE), i |-> i + 1]
      [] tok.k = "p" /\ tok.c = "null" -> [ok |-> TRUE, v |-> JNull, i |-> i + 1]
      [] tok.k = "p" /\ tok.c = "{" ->
           IF IsP(toks, i + 1, "}")
           THEN [ok |-> TRUE, v |-> JObj(<<>>), i |-> i + 2]
           ELSE ParseMembers(toks, i + 1, <<>>)
      [] tok.k = "p" /\ tok.c = "[" ->
           IF IsP(toks, i + 1, "]")
           THEN [ok |-> TRUE, v |-> JArr(<<>>), i |-> i + 2]
           ELSE ParseElements(toks, i + 1, <<>>)
      [] OTHER -> ParseFail

\* members of an object from token i on, o the members read so far; a
\* repeated key keeps its last value
ParseMembers(toks, i, o) ==
  IF ~(i + 1 <= Len(toks) /\ toks[i].k = "s" /\ IsP(toks, i + 1, ":"))
  THEN ParseFail
  ELSE LET r == ParseValue(toks, i + 2) IN
    IF ~r.ok THEN ParseFail
    ELSE LET o2 == (toks[i].s :> r.v) @@ o IN
      IF IsP(toks, r.i, "}") THEN [ok |-> TRUE, v |-> JObj(o2), i |-> r.i + 1]
      ELSE IF IsP(toks, r.i, ",") THEN ParseMembers(toks, r.i + 1, o2)
      ELSE ParseFail

ParseElements(toks, i, a) ==
  LET r == ParseValue(toks, i) IN
    IF ~r.ok THEN ParseFail
    ELSE LET a2 == Append(a, r.v) IN
      IF IsP(toks, r.i, "]") THEN [ok |-> TRUE, v |-> JArr(a2), i |-> r.i + 1]
      ELSE IF IsP(toks, r.i, ",") THEN ParseElements(toks, r.i + 1, a2)
      ELSE ParseFail

JsonParsePrefix(raw) ==
  LET r == ParseValue(raw, 1)
  IN IF r.ok THEN r.v ELSE JThrow

\* JSON.parse(raw): the value, or JThrow for a SyntaxError
JsonParse(raw) ==
  LET r == ParseValue(raw, 1)
  IN IF r.ok /\ r.i = Len(raw) + 1 THEN r.v ELSE JThrow

(***************************************************************************)
(* The sender's encoder: the tokens of the JSON text of a value.  Members  *)
(* are written in the order of KeyOrder.                                   *)
(***************************************************************************)
KeyOrder == << "type", "data", "name", "options", "value", "guild_id", "channel_id" >>

RECURSIVE Encode(_), EncodeMembers(_, _, _), EncodeElements(_, _)
Encode(v) ==
  CASE v.t = "string" -> <<S(v.s)>>
    [] v.t = "number" -> <<[k |-> "n", n |-> v.n, h |-> v.h]>>
    [] v.t = "boolean" -> <<P(IF v.b THEN "true" ELSE "false")>>
    [] v.t = "null" -> <<P("null")>>
    [] v.t = "array" -> <<P("[")>> \o EncodeElements(v.a, 1) \o <<P("]")>>
    [] v.t = "object" -> <<P("{")>> \o EncodeMembers(v.o, 1, TRUE) \o <<P("}")>>

EncodeMembers(o, j, first) ==
  IF j > Len(KeyOrder) THEN <<>>
  ELSE IF KeyOrder[j] \notin DOMAIN o THEN EncodeMembers(o, j + 1, first)
  ELSE (IF first THEN <<>> ELSE <<P(",")>>)
       \o <<S(KeyOrder[j]), P(":")>> \o Encode(o[KeyOrder[j]])
       \o EncodeMembers(o, j + 1, FALSE)

EncodeElements(a, j) ==
  IF j > Len(a) THEN <<>>
  ELSE (IF j = 1 THEN <<>> ELSE <<P(",")>>) \o Encode(a[j]) \o EncodeElements(a, j + 1)


(***************************************************************************)
(* Startup: the environment, the public key, the configuration file.       *)
(***************************************************************************)
VARIABLES
  variant,          \* which bot runs: "index" (src/index.js), "part_001" or
                    \* "part_000" (the gateway bot)
  env,              \* process.env: PUBLIC_KEY, DISCORD_TOKEN, CLIENT_ID
  proc,             \* "init", "running", "exited" (process.exit), "crashed"
  PUBLIC_KEY_PEM,   \* the loaded key, or not loaded
  config,           \* the in-memory configuration: config.guilds
  disk,             \* config.json as last written
  reqs,             \* the HTTP requests, one per slot
  served,           \* number of requests received so far
  rules,            \* the platform's AutoMod rules that exist (their ids)
  nextRule          \* the id the platform gives the next rule it creates

vars == <<variant, env, proc, PUBLIC_KEY_PEM, config, disk, reqs, served,
          rules, nextRule>>

Variants == {"index", "part_001", "part_000"}
Slots == 1..MaxSlots

\* The key pair of the platform that signs the requests, and another one.
ServerKey == [i \in 1..KeyLen |-> (i * 7) % 256]
OtherKey == [i \in 1..KeyLen |-> (i * 5 + 1) % 256]

NoPem == [loaded |-> FALSE, key |-> <<>>]

\* values of the PUBLIC_KEY environment variable: the key, nothing, a key one
\* byte short, the key followed by two characters that are not hex, no hex
KeyTexts ==
  { ToHex(ServerKey),
    <<>>,
    ToHex(SubSeq(ServerKey, 1, KeyLen - 1)),
    ToHex(ServerKey) \o Text(<<"z", "z">>),
    Text(<<"z", "z">>) }

Envs ==
  { [PUBLIC_KEY |-> k, DISCORD_TOKEN |-> TRUE, CLIENT_ID |-> TRUE] : k \in KeyTexts }
  \cup { [PUBLIC_KEY |-> ToHex(ServerKey), DISCORD_TOKEN |-> FALSE, CLIENT_ID |-> TRUE],
         [PUBLIC_KEY |-> ToHex(ServerKey), DISCORD_TOKEN |-> TRUE, CLIENT_ID |-> FALSE] }

\* publicKeyToPemFromHex(hex) and ed25519PublicKeyPemFromHex(hex): the key
\* object, or not loaded when the function throws
publicKeyToPemFromHex(hex) ==
  LET key == BufferFromHex(hex)
  IN IF Len(key) # KeyLen THEN NoPem ELSE [loaded |-> TRUE, key |-> key]

\* a guild's configuration as guildCfg first creates it
DefaultGuildCfg(v) ==
  IF v = "index"
  THEN [logging_channel_id |-> JNull,
        automod |-> [anti_spam |-> TRUE, mention_spam |-> TRUE,
                     mention_limit |-> 5, block_invites |-> FALSE],
        automod_rule_ids |-> <<>>]
  ELSE [log_channel_id |-> JNull]

\* the name of the log channel setting
LogField(v) == IF v = "index" THEN "logging_channel_id" ELSE "log_channel_id"

\* loadConfig(): what config.json holds at startup (nothing, or one guild
\* or two whose log channel was set by an earlier run)
ConfigFiles(v) ==
  { [guilds |-> <<>>],
    [guilds |-> ("g1" :> [DefaultGuildCfg(v) EXCEPT ![LogField(v)] = JStr("c1")])],
    [guilds |-> ("g1" :> [DefaultGuildCfg(v) EXCEPT ![LogField(v)] = JStr("c1")])
                @@ ("g2" :> [DefaultGuildCfg(v) EXCEPT ![LogField(v)] = JStr("c1")])] }

\* guildCfg assigning a fresh default whether or not the guild is known
guildCfgFresh(v, cfg, guildId) ==
  [cfg EXCEPT !.guilds = (guildId :> DefaultGuildCfg(v)) @@ cfg.guilds]
\* guildCfg(guildId): config.guilds[guildId] ||= default
guildCfg(v, cfg, guildId) ==
  IF guildId \in DOMAIN cfg.guilds THEN cfg
  ELSE [cfg EXCEPT !.guilds = (guildId :> DefaultGuildCfg(v)) @@ cfg.guilds]

(***************************************************************************)
(* verifyDiscordRequest(signatureHex, timestamp, rawBody): JBool, or       *)
(* JThrow.  A header is [present, s].                                      *)
(***************************************************************************)
NoHeader == [present |-> FALSE, s |-> <<>>]
Header(text) == [present |-> TRUE, s |-> text]
\* !h for a header
Falsy(h) == ~h.present \/ h.s = <<>>

VerifyMessageSeparated(timestamp, rawBody) ==
  timestamp.s \o <<P(":")>> \o rawBody

\* Buffer.from(timestamp + rawBody)
VerifyMessage(timestamp, rawBody) == timestamp.s \o rawBody

\* verifyDiscordRequest raising on a missing or empty header instead of
\* returning false
verifyDiscordRequestStrict(v, pem, signatureHex, timestamp, rawBody) ==
  IF v = "part_001" /\ ~pem.loaded THEN JBool(FALSE)
  ELSE IF Falsy(signatureHex) \/ Falsy(timestamp) THEN JThrow
  ELSE IF ~pem.loaded THEN JThrow
  ELSE JBool(CryptoVerify(VerifyMessage(timestamp, rawBody), pem.key,
                          BufferFromHex(signatureHex.s)))
verifyDiscordRequest(v, pem, signatureHex, timestamp, rawBody) ==
  IF v = "part_001" /\ ~pem.loaded THEN JBool(FALSE)
  ELSE IF Falsy(signatureHex) \/ Falsy(timestamp) THEN JBool(FALSE)
  ELSE IF ~pem.loaded THEN JThrow     \* crypto.createPublicKey(undefined)
  ELSE JBool(CryptoVerify(VerifyMessage(timestamp, rawBody), pem.key,
                          BufferFromHex(signatureHex.s)))


(***************************************************************************)
(* Handlers.  A handler runs from a point `at` (its entry "", or the label *)
(* of the await it was suspended at, with `ret` what the awaited REST call *)
(* returned) up to its next await, its return or its throw.                *)
(*   c = [v, inter, at, loc, ret, cfg, disk]                               *)
(* and the result is one of Return, Throw, Await.                          *)
(***************************************************************************)
\* reply(content, {ephemeral}) and replyMessage(content, {ephemeral}); ref is
\* the value the content interpolates
reply(content, ref, ephemeral) ==
  [type |-> CHANNEL_MESSAGE_WITH_SOURCE, content |-> content, ref |-> ref,
   flags |-> IF ephemeral THEN EPHEMERAL ELSE 0]
Pong == [type |-> PONG]
NoEnvelope == [type |-> 0]

\* a REST call: operation, guild or channel, target, detail
Call(op, g, x, d) == [op |-> op, g |-> g, x |-> x, d |-> d]
NoCall == Call("none", JUndef, JUndef, JUndef)

\* what a REST call returned: ok, and for a message list the numbers of
\* messages by humans and by bots, for a created rule its id; for a failed
\* call of the gateway bot n is the length of the error's message
Ret(ok, n, b, id) == [ok |-> ok, n |-> n, b |-> b, id |-> id]
NoRet == Ret(TRUE, 0, 0, 0)
FailRet == Ret(FALSE, 0, 0, 0)

\* locals of a suspended handler: the reply it will give, a number, the ids
\* still to delete, the ids created
NoLoc == [envl |-> NoEnvelope, n |-> 0, q |-> <<>>, made |-> <<>>]

Return(envl, cfg, dsk) ==
  [k |-> "return", env |-> envl, call |-> NoCall, at |-> "", loc |-> NoLoc,
   cfg |-> cfg, disk |-> dsk]
Throw(cfg, dsk) ==
  [k |-> "throw", env |-> NoEnvelope, call |-> NoCall, at |-> "", loc |-> NoLoc,
   cfg |-> cfg, disk |-> dsk]
Await(call, at, loc, cfg, dsk) ==
  [k |-> "await", env |-> NoEnvelope, call |-> call, at |-> at, loc |-> loc,
   cfg |-> cfg, disk |-> dsk]

\* getOption(interaction, name) of part_001, and
\* (interaction.data.options || []).find(o => o.name === name)?.value of index
getOption(v, interaction, name) ==
  LET data == Prop(interaction, "data")
      opts == IF v = "index" THEN OrElse(Prop(data, "options"), JArr(<<>>))
              ELSE OrElse(OptProp(data, "options"), JArr(<<>>))
  IN OptProp(Find(opts, name), "value")

\* the key of config.guilds for a guild id
GuildKey(guildId) == IF guildId.t = "string" THEN guildId.s ELSE "other"

\* sendLog posting without looking for the guild's log channel
sendLogAlways(c, guildId, envl) ==
  LET cfg2 == guildCfg(c.v, c.cfg, GuildKey(guildId))
      ch == cfg2.guilds[GuildKey(guildId)][LogField(c.v)]
  IN Await(Call("POST message", ch, JUndef, JUndef), "log",
           [NoLoc EXCEPT !.envl = envl], cfg2, c.disk)
\* sendLog(guildId, content), awaited by the handler, which then returns envl:
\* nothing is posted when the guild has no log channel; a failure of the post
\* is swallowed
sendLog(c, guildId, envl) ==
  LET cfg2 == guildCfg(c.v, c.cfg, GuildKey(guildId))
      ch == cfg2.guilds[GuildKey(guildId)][LogField(c.v)]
  IN IF ~Truthy(ch) THEN Return(envl, cfg2, c.disk)
     ELSE Await(Call("POST message", ch, JUndef, JUndef), "log",
                [NoLoc EXCEPT !.envl = envl], cfg2, c.disk)
afterLogUncaught(c) ==
  IF ~c.ret.ok THEN Throw(c.cfg, c.disk) ELSE Return(c.loc.envl, c.cfg, c.disk)
\* at "log": the post returned or failed
afterLog(c) == Return(c.loc.envl, c.cfg, c.disk)

ServerOnlyPublic(v) ==
  reply(IF v = "index" THEN "This command only works in a server."
        ELSE "Run this inside a server.", JUndef, FALSE)
ServerOnly(v) ==
  reply(IF v = "index" THEN "This command only works in a server."
        ELSE "Run this inside a server.", JUndef, TRUE)

handleServerInfo(c) ==
  LET guildId == Prop(c.inter, "guild_id") IN
  CASE c.at = "" ->
         IF ~Truthy(guildId) THEN Return(ServerOnly(c.v), c.cfg, c.disk)
         ELSE Await(Call("GET guild", guildId, JUndef, JUndef), "api", NoLoc, c.cfg, c.disk)
    [] c.at = "api" ->
         IF ~c.ret.ok THEN Throw(c.cfg, c.disk)
         ELSE Return(reply("Server Info", guildId, FALSE), c.cfg, c.disk)

handleUserInfo(c) ==
  LET guildId == Prop(c.inter, "guild_id")
      userId == getOption(c.v, c.inter, "user") IN
  CASE c.at = "" ->
         IF ~Truthy(guildId) THEN Return(ServerOnly(c.v), c.cfg, c.disk)
         ELSE IF Thrown(userId) THEN Throw(c.cfg, c.disk)
         ELSE Await(Call("GET member", guildId, userId, JUndef), "api", NoLoc, c.cfg, c.disk)
    [] c.at = "api" ->
         IF ~c.ret.ok THEN Throw(c.cfg, c.disk)
         ELSE Return(reply("User Info", userId, TRUE), c.cfg, c.disk)

handleAvatar(c) ==
  LET userId == getOption(c.v, c.inter, "user") IN
  CASE c.at = "" ->
         IF Thrown(userId) THEN Throw(c.cfg, c.disk)
         ELSE Await(Call("GET user", JUndef, userId, JUndef), "api", NoLoc, c.cfg, c.disk)
    [] c.at = "api" ->
         IF ~c.ret.ok THEN Throw(c.cfg, c.disk)
         ELSE Return(reply("avatar", userId, TRUE), c.cfg, c.disk)

\* handleKick and handleBan of part_001, handleKickBan(interaction, mode) of
\* index; mode is "kick" or "ban"
handleKickBan(c, mode) ==
  LET guildId == Prop(c.inter, "guild_id")
      userId == getOption(c.v, c.inter, "user")
      deleteDays == getOption(c.v, c.inter, "delete_days")
      reason == getOption(c.v, c.inter, "reason") IN
  CASE c.at = "" ->
         IF Thrown(userId) \/ Thrown(reason) THEN Throw(c.cfg, c.disk)
         \* handleBan of part_001 reads delete_days before it tests the ids
         ELSE IF mode = "ban" /\ c.v # "index" /\ Thrown(deleteDays)
         THEN Throw(c.cfg, c.disk)
         ELSE IF ~Truthy(guildId) \/ ~Truthy(userId)
         THEN Return(reply("Missing guild/user.", JUndef, TRUE), c.cfg, c.disk)
         ELSE IF mode = "kick"
         THEN Await(Call("DELETE member", guildId, userId, JUndef), "api", NoLoc, c.cfg, c.disk)
         ELSE IF Thrown(deleteDays) THEN Throw(c.cfg, c.disk)
         \* delete_days ?? 0
         ELSE Await(Call("PUT ban", guildId, userId,
                         IF Nullish(deleteDays) THEN JNum(0) ELSE deleteDays),
                    "api", NoLoc, c.cfg, c.disk)
    [] c.at = "api" ->
         IF ~c.ret.ok THEN Throw(c.cfg, c.disk)
         ELSE sendLog(c, guildId,
                      reply(IF mode = "kick" THEN "Kicked" ELSE "Banned", userId, TRUE))
    [] c.at = "log" -> afterLog(c)

\* String(v || "").trim() on the values the model sends
StringTrim(v) ==
  IF ~Truthy(v) THEN JStr("")
  ELSE IF v.t = "string" THEN v
  ELSE JStr("other")

\* handleUnban issuing its call without looking at the guild and user ids
handleUnbanUnchecked(c) ==
  LET guildId == Prop(c.inter, "guild_id")
      found == getOption(c.v, c.inter, "user_id")
      userId == StringTrim(found) IN
  CASE c.at = "" ->
         IF Thrown(found) THEN Throw(c.cfg, c.disk)
         ELSE Await(Call("DELETE ban", guildId, userId, JUndef), "api", NoLoc, c.cfg, c.disk)
    [] c.at = "api" ->
         IF ~c.ret.ok THEN Throw(c.cfg, c.disk)
         ELSE sendLog(c, guildId, reply("Unbanned", userId, TRUE))
    [] c.at = "log" -> afterLog(c)
handleUnban(c) ==
  LET guildId == Prop(c.inter, "guild_id")
      found == getOption(c.v, c.inter, "user_id")
      userId == StringTrim(found) IN
  CASE c.at = "" ->
         IF Thrown(found) THEN Throw(c.cfg, c.disk)
         ELSE IF ~Truthy(guildId) \/ ~Truthy(userId)
         THEN Return(reply("Missing guild/user_id.", JUndef, TRUE), c.cfg, c.disk)
         ELSE Await(Call("DELETE ban", guildId, userId, JUndef), "api", NoLoc, c.cfg, c.disk)
    [] c.at = "api" ->
         IF ~c.ret.ok THEN Throw(c.cfg, c.disk)
         ELSE sendLog(c, guildId, reply("Unbanned", userId, TRUE))
    [] c.at = "log" -> afterLog(c)


(***************************************************************************)
(* parseDurationToMs(input).  The characters of a string are looked up in  *)
(* Chars; a duration is counted in seconds (every unit is a whole number   *)
(* of seconds, and the result in milliseconds is 1000 times the count).    *)
(***************************************************************************)
Chars(str) ==
  CASE str = "10m" -> <<"1", "0", "m">>
    [] str = "1d2h30m" -> <<"1", "d", "2", "h", "3", "0", "m">>
    [] str = "abc" -> <<"a", "b", "c">>
    [] str = "0m" -> <<"0", "m">>
    [] str = "29d" -> <<"2", "9", "d">>
    [] str = "3s" -> <<"3", "s">>
    [] str = "5s" -> <<"5", "s">>
    [] str = "28d" -> <<"2", "8", "d">>
    [] str = "x10m" -> <<"x", "1", "0", "m">>
    [] str = "10min" -> <<"1", "0", "m", "i", "n">>
    [] str = "10 M" -> <<"1", "0", " ", "M">>
    [] str = "1h,30m" -> <<"1", "h", ",", "3", "0", "m">>
    [] str = "1.5h" -> <<"1", ".", "5", "h">>
    [] str = "m10" -> <<"m", "1", "0">>
    [] str = "1h junk" -> <<"1", "h", " ", "j", "u", "n", "k">>
    [] str = " 1 D " -> <<" ", "1", " ", "D", " ">>
    [] str = "" -> <<>>
    [] OTHER -> <<"?">>

IsDigit(ch) == ch \in {"0", "1", "2", "3", "4", "5", "6", "7", "8", "9"}

RECURSIVE TrimLeft(_), TrimRight(_)
TrimLeft(cs) == IF cs # <<>> /\ Head(cs) = " " THEN TrimLeft(Tail(cs)) ELSE cs
TrimRight(cs) ==
  IF cs # <<>> /\ cs[Len(cs)] = " " THEN TrimRight(SubSeq(cs, 1, Len(cs) - 1)) ELSE cs

LowerChar(ch) ==
  CASE ch = "D" -> "d" [] ch = "H" -> "h" [] ch = "M" -> "m" [] ch = "S" -> "s"
    [] ch = "A" -> "a" [] ch = "B" -> "b" [] ch = "C" -> "c" [] ch = "E" -> "e"
    [] ch = "F" -> "f" [] OTHER -> ch

\* seconds of one unit
UnitSeconds(u) ==
  CASE u = "d" -> 24 * 60 * 60 [] u = "h" -> 60 * 60 [] u = "m" -> 60 [] u = "s" -> 1

\* the end of the run of characters satisfying Is that starts at i
RECURSIVE RunEnd(_, _, _)
RunEnd(cs, i, digits) ==
  IF i <= Len(cs) /\ (IF digits THEN IsDigit(cs[i]) ELSE cs[i] = " ")
  THEN RunEnd(cs, i + 1, digits) ELSE i

\* Number(match[1])
RECURSIVE DecimalValue(_, _, _, _)
DecimalValue(cs, i, j, acc) ==
  IF i >= j THEN acc ELSE DecimalValue(cs, i + 1, j, acc * 10 + unhex(cs[i]))

RECURSIVE ScanDurationLast(_, _, _, _)
ScanDurationLast(cs, i, found, total) ==
  IF i > Len(cs) THEN [found |-> found, total |-> total]
  ELSE IF ~IsDigit(cs[i]) THEN ScanDurationLast(cs, i + 1, found, total)
  ELSE LET j == RunEnd(cs, i, TRUE)
           u == RunEnd(cs, j, FALSE)
       IN IF u <= Len(cs) /\ cs[u] \in {"d", "h", "m", "s"}
          THEN ScanDurationLast(cs, u + 1, TRUE,
                                DecimalValue(cs, i, j, 0) * UnitSeconds(cs[u]))
          ELSE ScanDurationLast(cs, j, found, total)
\* the loop giving up at the first character that belongs to no token
RECURSIVE ScanDurationAnchored(_, _, _, _)
ScanDurationAnchored(cs, i, found, total) ==
  IF i > Len(cs) THEN [found |-> found, total |-> total]
  ELSE IF ~IsDigit(cs[i]) THEN [found |-> FALSE, total |-> 0]
  ELSE LET j == RunEnd(cs, i, TRUE)
           u == RunEnd(cs, j, FALSE)
       IN IF u <= Len(cs) /\ cs[u] \in {"d", "h", "m", "s"}
          THEN ScanDurationAnchored(cs, u + 1, TRUE,
                                    total + DecimalValue(cs, i, j, 0) * UnitSeconds(cs[u]))
          ELSE [found |-> FALSE, total |-> 0]
\* the while loop over re.exec(raw) with re = /(\d+)\s*(d|h|m|s)/g, from
\* character i on: [found, total]
RECURSIVE ScanDuration(_, _, _, _)
ScanDuration(cs, i, found, total) ==
  IF i > Len(cs) THEN [found |-> found, total |-> total]
  ELSE IF ~IsDigit(cs[i]) THEN ScanDuration(cs, i + 1, found, total)
  ELSE LET j == RunEnd(cs, i, TRUE)
           u == RunEnd(cs, j, FALSE)
       IN IF u <= Len(cs) /\ cs[u] \in {"d", "h", "m", "s"}
          THEN ScanDuration(cs, u + 1, TRUE,
                            total + DecimalValue(cs, i, j, 0) * UnitSeconds(cs[u]))
          ELSE ScanDuration(cs, j, found, total)

\* String(input || "") as characters
InputChars(input) ==
  IF ~Truthy(input) THEN <<>>
  ELSE IF input.t = "string" THEN Chars(input.s)
  ELSE <<"?">>

\* null, or the duration: [null, s]
parseDurationToMs(input) ==
  LET trimmed == TrimRight(TrimLeft(InputChars(input)))
      raw == [i \in 1..Len(trimmed) |-> LowerChar(trimmed[i])]
      r == ScanDuration(raw, 1, FALSE, 0)
  IN IF ~r.found \/ r.total <= 0 THEN [null |-> TRUE, s |-> 0]
     ELSE [null |-> FALSE, s |-> r.total]

\* the duration test without its lower limit
BadDurationNoFloor(ms) == ms.null \/ ms.s > 28 * 24 * 60 * 60
\* the duration test of the timeout handlers refusing nothing
BadDurationNever(ms) == FALSE
\* !ms || ms < 5_000 || ms > 28 * 24 * 60 * 60 * 1000
BadDuration(ms) == ms.null \/ ms.s < 5 \/ ms.s > 28 * 24 * 60 * 60

\* handleTimeout(interaction, untimeout)
handleTimeout(c, untimeout) ==
  LET guildId == Prop(c.inter, "guild_id")
      userId == getOption(c.v, c.inter, "user")
      ms == parseDurationToMs(getOption(c.v, c.inter, "duration")) IN
  CASE c.at = "" ->
         IF Thrown(userId) THEN Throw(c.cfg, c.disk)
         ELSE IF ~Truthy(guildId) \/ ~Truthy(userId)
         THEN Return(reply("Missing guild/user.", JUndef, TRUE), c.cfg, c.disk)
         ELSE IF ~untimeout /\ BadDuration(ms)
         THEN Return(reply("Invalid duration.", JUndef, TRUE), c.cfg, c.disk)
         ELSE Await(Call("PATCH member", guildId, userId,
                         IF untimeout THEN JNull ELSE JNum(ms.s)),
                    "api", NoLoc, c.cfg, c.disk)
    [] c.at = "api" ->
         IF ~c.ret.ok THEN Throw(c.cfg, c.disk)
         ELSE sendLog(c, guildId,
                      reply(IF untimeout THEN "Timeout removed" ELSE "Timed out",
                            userId, TRUE))
    [] c.at = "log" -> afterLog(c)


(***************************************************************************)
(* handlePurge.                                                            *)
(***************************************************************************)
\* Number(v) on the values the model sends
ToNumber(v) ==
  CASE v.t = "number" -> v
    [] v.t = "boolean" -> JNum(IF v.b THEN 1 ELSE 0)
    [] v.t = "null" -> JNum(0)
    [] v.t = "string" /\ v.s = "" -> JNum(0)
    [] OTHER -> [t |-> "NaN"]

\* messages.map(m => m.id).length, and in index the messages that pass
\* .filter(m => include || !m.author?.bot)
PurgeIds(c) ==
  LET includeBots == getOption(c.v, c.inter, "include_bots")
      include == IF TypeOf(includeBots) = "boolean" THEN includeBots.b ELSE TRUE
  IN IF c.v = "index" /\ ~include THEN c.ret.n ELSE c.ret.n + c.ret.b

\* handlePurge without the try around the bulk delete
handlePurgeUncaught(c) ==
  LET guildId == Prop(c.inter, "guild_id")
      channelId == Prop(c.inter, "channel_id")
      opt == getOption(c.v, c.inter, "count")
      count == IF c.v = "index" THEN opt ELSE ToNumber(OrElse(opt, JNum(0))) IN
  CASE c.at = "" ->
         IF Thrown(opt) THEN Throw(c.cfg, c.disk)
         ELSE IF c.v = "index"
         THEN IF ~Truthy(guildId) \/ ~Truthy(channelId) \/ ~Truthy(count)
              THEN Return(reply("Missing channel/count.", JUndef, TRUE), c.cfg, c.disk)
              ELSE Await(Call("GET messages", channelId, JUndef, count), "list",
                         NoLoc, c.cfg, c.disk)
         ELSE IF ~Truthy(guildId) \/ ~Truthy(channelId)
              THEN Return(reply("Run this in a server channel.", JUndef, TRUE), c.cfg, c.disk)
              \* !count || count < 1 || count > 100 (NaN compares false)
              ELSE IF \/ ~Truthy(count)
                      \/ count.t = "number" /\ count.n < 1
                      \/ count.t = "number" /\ (count.n > 100 \/ (count.h /\ count.n >= 100))
              THEN Return(reply("Count must be 1-100.", JUndef, TRUE), c.cfg, c.disk)
              ELSE Await(Call("GET messages", channelId, JUndef, count), "list",
                         NoLoc, c.cfg, c.disk)
    [] c.at = "list" ->
         IF ~c.ret.ok THEN Throw(c.cfg, c.disk)
         ELSE IF PurgeIds(c) = 0
         THEN Return(reply("Nothing to delete.", JUndef, TRUE), c.cfg, c.disk)
         ELSE Await(Call("POST bulk-delete", channelId, JUndef, JNum(PurgeIds(c))), "bulk",
                    [NoLoc EXCEPT !.n = PurgeIds(c)], c.cfg, c.disk)
    [] c.at = "bulk" ->
         IF ~c.ret.ok
         THEN Throw(c.cfg, c.disk)
         ELSE sendLog(c, guildId, reply("Deleted", JNum(c.loc.n), TRUE))
    [] c.at = "log" -> afterLog(c)
handlePurge(c) ==
  LET guildId == Prop(c.inter, "guild_id")
      channelId == Prop(c.inter, "channel_id")
      opt == getOption(c.v, c.inter, "count")
      count == IF c.v = "index" THEN opt ELSE ToNumber(OrElse(opt, JNum(0))) IN
  CASE c.at = "" ->
         IF Thrown(opt) THEN Throw(c.cfg, c.disk)
         ELSE IF c.v = "index"
         THEN IF ~Truthy(guildId) \/ ~Truthy(channelId) \/ ~Truthy(count)
              THEN Return(reply("Missing channel/count.", JUndef, TRUE), c.cfg, c.disk)
              ELSE Await(Call("GET messages", channelId, JUndef, count), "list",
                         NoLoc, c.cfg, c.disk)
         ELSE IF ~Truthy(guildId) \/ ~Truthy(channelId)
              THEN Return(reply("Run this in a server channel.", JUndef, TRUE), c.cfg, c.disk)
              \* !count || count < 1 || count > 100 (NaN compares false)
              ELSE IF \/ ~Truthy(count)
                      \/ count.t = "number" /\ count.n < 1
                      \/ count.t = "number" /\ (count.n > 100 \/ (count.h /\ count.n >= 100))
              THEN Return(reply("Count must be 1-100.", JUndef, TRUE), c.cfg, c.disk)
              ELSE Await(Call("GET messages", channelId, JUndef, count), "list",
                         NoLoc, c.cfg, c.disk)
    [] c.at = "list" ->
         IF ~c.ret.ok THEN Throw(c.cfg, c.disk)
         ELSE IF PurgeIds(c) = 0
         THEN Return(reply("Nothing to delete.", JUndef, TRUE), c.cfg, c.disk)
         ELSE Await(Call("POST bulk-delete", channelId, JUndef, JNum(PurgeIds(c))), "bulk",
                    [NoLoc EXCEPT !.n = PurgeIds(c)], c.cfg, c.disk)
    [] c.at = "bulk" ->
         IF ~c.ret.ok
         THEN Return(reply("Could not bulk delete.", JUndef, TRUE), c.cfg, c.disk)
         ELSE sendLog(c, guildId, reply("Deleted", JNum(c.loc.n), TRUE))
    [] c.at = "log" -> afterLog(c)

(***************************************************************************)
(* handleSetup, with clearOurAutomodRules and applyAutomod of index.       *)
(***************************************************************************)
\* saveConfig(config): the file holds the configuration
Saved(c, cfg) == [c EXCEPT !.cfg = cfg, !.disk = cfg]

\* cleanBool turning every value that is no boolean into false
cleanBoolCoerce(v, fallback) == IF TypeOf(v) = "boolean" THEN v.b ELSE FALSE
\* cleanBool(v, fallback)
cleanBool(v, fallback) == IF TypeOf(v) = "boolean" THEN v.b ELSE fallback

\* the settings in the order applyAutomod creates their rules
RuleEnabled(automod, stage) ==
  CASE stage = 1 -> automod.anti_spam
    [] stage = 2 -> automod.mention_spam
    [] stage = 3 -> automod.block_invites

\* applyAutomod from the rule of `stage` on, `made` the ids created so far:
\* awaits the creation of the next enabled rule, or stores the ids, logs and
\* returns
RECURSIVE applyAutomod(_, _, _)
applyAutomod(c, stage, made) ==
  LET guildId == Prop(c.inter, "guild_id")
      key == GuildKey(guildId)
  IN IF stage > 3
     THEN LET cfg2 == [c.cfg EXCEPT !.guilds[key].automod_rule_ids = made]
          IN sendLog(Saved(c, cfg2), guildId,
                     reply("AutoMod Applied", JNum(Len(made)), TRUE))
     ELSE IF RuleEnabled(c.cfg.guilds[key].automod, stage)
     THEN Await(Call("POST rule", guildId, JNum(stage), JUndef), "create",
                [NoLoc EXCEPT !.n = stage, !.made = made], c.cfg, c.disk)
     ELSE applyAutomod(c, stage + 1, made)

\* clearOurAutomodRules forgetting the stored ids without deleting the rules
clearOurAutomodRulesNone(c, q) ==
  LET guildId == Prop(c.inter, "guild_id")
      key == GuildKey(guildId)
  IN applyAutomod(Saved(c, [c.cfg EXCEPT !.guilds[key].automod_rule_ids = <<>>]),
                  1, <<>>)
\* clearOurAutomodRules with the ids `q` still to delete: awaits the deletion
\* of the next one, or empties the stored list, saves and goes on
clearOurAutomodRules(c, q) ==
  LET guildId == Prop(c.inter, "guild_id")
      key == GuildKey(guildId)
  IN IF q # <<>>
     THEN Await(Call("DELETE rule", guildId, JNum(Head(q)), JUndef), "clear",
                [NoLoc EXCEPT !.q = q], c.cfg, c.disk)
     ELSE applyAutomod(Saved(c, [c.cfg EXCEPT !.guilds[key].automod_rule_ids = <<>>]),
                       1, <<>>)

handleSetup(c) ==
  LET guildId == Prop(c.inter, "guild_id")
      key == GuildKey(guildId)
      options == OptProp(Prop(c.inter, "data"), "options")
      sub == OptProp(OptFirst(options), "name")
      inner == OptProp(OptFirst(options), "options")
      cfg1 == guildCfg(c.v, c.cfg, key)
      cur == cfg1.guilds[key]
  IN
  CASE c.at = "" ->
         IF ~Truthy(guildId) THEN Return(ServerOnly(c.v), c.cfg, c.disk)
         ELSE IF IsStr(sub, "view") \/ ~Truthy(sub)
         THEN Return(reply("Current Settings", cur[LogField(c.v)], TRUE), cfg1, c.disk)
         ELSE IF IsStr(sub, IF c.v = "index" THEN "logging" ELSE "logs")
         THEN LET channelId == OptProp(IF Nullish(inner) THEN JUndef ELSE Find(inner, "channel"), "value")
              IN IF Thrown(channelId) THEN Throw(cfg1, c.disk)
                 ELSE LET cfg2 == [cfg1 EXCEPT !.guilds[key][LogField(c.v)] = channelId]
                      IN Return(reply("Log channel set", channelId, TRUE), cfg2, cfg2)
         ELSE IF c.v = "index" /\ IsStr(sub, "automod")
         THEN LET opts == OrElse(inner, JArr(<<>>))
                  getOpt(name) == OptProp(Find(opts, name), "value")
                  mentionLimit == getOpt("mention_limit")
                  a == cur.automod
                  a2 == [anti_spam |-> cleanBool(getOpt("anti_spam"), a.anti_spam),
                         mention_spam |-> cleanBool(getOpt("mention_spam"), a.mention_spam),
                         block_invites |-> cleanBool(getOpt("block_invites"), a.block_invites),
                         mention_limit |-> IF TypeOf(mentionLimit) = "number"
                                           THEN mentionLimit.n ELSE a.mention_limit]
                  cfg2 == [cfg1 EXCEPT !.guilds[key].automod = a2]
              IN IF Thrown(mentionLimit) THEN Throw(cfg1, c.disk)
                 ELSE clearOurAutomodRules(Saved(c, cfg2), cur.automod_rule_ids)
         ELSE Return(reply("Unknown setup option.", JUndef, TRUE), cfg1, c.disk)
    [] c.at = "clear" -> clearOurAutomodRules(c, Tail(c.loc.q))
    [] c.at = "create" ->
         IF ~c.ret.ok THEN Throw(c.cfg, c.disk)
         ELSE applyAutomod(c, c.loc.n + 1, Append(c.loc.made, c.ret.id))
    [] c.at = "log" -> afterLog(c)

(***************************************************************************)
(* routeInteraction (part_001) and handleInteraction (index).              *)
(***************************************************************************)
Commands(v) ==
  IF v = "index"
  THEN {"serverinfo", "setup", "timeout", "untimeout", "kick", "ban", "unban", "purge"}
  ELSE {"ping", "help", "serverinfo", "userinfo", "avatar", "purge", "setup",
        "kick", "ban", "timeout", "untimeout"}

ResolveNameFirst(v, interaction) ==
  LET type == Prop(interaction, "type")
      name == OptProp(Prop(interaction, "data"), "name")
  IN IF Thrown(type) THEN "throw"
     ELSE IF name.t = "string" /\ name.s \in Commands(v) THEN name.s
     ELSE IF IsNum(type, PING) THEN "PONG"
     ELSE "unknown"

\* Resolve matching the command name without regard to case and to spaces
\* around it
ResolveFolded(v, interaction) ==
  LET type == Prop(interaction, "type")
      name == OptProp(Prop(interaction, "data"), "name")
  IN IF Thrown(type) THEN "throw"
     ELSE IF IsNum(type, PING) THEN "PONG"
     ELSE IF name.t = "string" /\ name.s \in Commands(v) THEN name.s
     ELSE IF name.t = "string" /\ name.s \in {"Kick", "kick ", " kick"} THEN "kick"
     ELSE IF name.t = "string" /\ name.s = "SETUP" THEN "setup"
     ELSE "unknown"
\* the branch taken: "throw" when reading interaction.type throws, "PONG" for
\* a ping, the command whose name matches, or "unknown"
Resolve(v, interaction) ==
  LET type == Prop(interaction, "type")
      name == OptProp(Prop(interaction, "data"), "name")
  IN IF Thrown(type) THEN "throw"
     ELSE IF IsNum(type, PING) THEN "PONG"
     ELSE IF name.t = "string" /\ name.s \in Commands(v) THEN name.s
     ELSE "unknown"

UnknownCommandPublic(v) ==
  reply(IF v = "index" THEN "Unknown command." ELSE "Unknown command. Try /help.",
        JUndef, FALSE)

UnknownCommand(v) ==
  reply(IF v = "index" THEN "Unknown command." ELSE "Unknown command. Try /help.",
        JUndef, TRUE)

\* one run of the handler of cmd, from c.at to its next await, return or throw
HandlerStep(c, cmd) ==
  CASE cmd = "throw" -> Throw(c.cfg, c.disk)
    [] cmd = "PONG" -> Return(Pong, c.cfg, c.disk)
    [] cmd = "ping" -> Return(reply("Pong!", JUndef, FALSE), c.cfg, c.disk)
    [] cmd = "help" -> Return(reply("Utility Bot", JUndef, TRUE), c.cfg, c.disk)
    [] cmd = "serverinfo" -> handleServerInfo(c)
    [] cmd = "userinfo" -> handleUserInfo(c)
    [] cmd = "avatar" -> handleAvatar(c)
    [] cmd = "purge" -> handlePurge(c)
    [] cmd = "setup" -> handleSetup(c)
    [] cmd = "kick" -> handleKickBan(c, "kick")
    [] cmd = "ban" -> handleKickBan(c, "ban")
    [] cmd = "unban" -> handleUnban(c)
    [] cmd = "timeout" -> handleTimeout(c, FALSE)
    [] cmd = "untimeout" -> handleTimeout(c, TRUE)
    [] OTHER -> Return(UnknownCommand(c.v), c.cfg, c.disk)

\* Run with a router that runs the handler once more from its entry when it
\* threw after a REST call
RunRetry(c, cmd, token) ==
  LET r == HandlerStep(c, cmd)
  IN IF r.k = "throw" /\ c.at # "" /\ token
     THEN HandlerStep([c EXCEPT !.at = "", !.loc = NoLoc, !.ret = NoRet], cmd)
     ELSE IF r.k = "await" /\ ~token THEN Throw(r.cfg, r.disk)
     ELSE r
\* discordApi of part_001 throws before any request is sent when DISCORD_TOKEN
\* is missing: the await fails at once and the handler runs on
RECURSIVE Run(_, _, _)
Run(c, cmd, token) ==
  LET Resume(r) ==
        IF r.k = "await" /\ ~token
        THEN Run([c EXCEPT !.at = r.at, !.loc = r.loc, !.ret = FailRet,
                           !.cfg = r.cfg, !.disk = r.disk], cmd, token)
        ELSE r
  IN Resume(HandlerStep(c, cmd))


(***************************************************************************)
(* The requests the server receives.                                       *)
(***************************************************************************)
Fld(k, v) == IF v = JUndef THEN <<>> ELSE (k :> v)
Opt(name, value) == JObj(("name" :> JStr(name)) @@ ("value" :> value))
Sub(name, options) == JObj(("name" :> JStr(name)) @@ Fld("options", options))
Data(name, options) == JObj(("name" :> name) @@ Fld("options", options))
Interaction(type, data, guild, channel) ==
  JObj(Fld("type", type) @@ Fld("data", data) @@ Fld("guild_id", guild)
       @@ Fld("channel_id", channel))
\* a command invoked in guild g1, channel c1
Cmd(name, options) ==
  Interaction(JNum(2), Data(JStr(name), JArr(options)), JStr("g1"), JStr("c1"))
\* a command invoked outside a guild
DmCmd(name, options) ==
  Interaction(JNum(2), Data(JStr(name), JArr(options)), JUndef, JStr("c1"))

User == Opt("user", JStr("u1"))
PingValue == Interaction(JNum(PING), JUndef, JUndef, JUndef)
KickValue == Cmd("kick", <<User>>)

Values ==
  { PingValue,
    Interaction(JNum(PING), Data(JStr("kick"), JStr("abc")), JStr("g1"), JUndef),
    Interaction(JNum(PING), JNull, JUndef, JUndef),
    \* no interaction objects
    JNull, JNum(5), JObj(<<>>),
    \* no type
    Interaction(JUndef, Data(JStr("kick"), JArr(<<User>>)), JStr("g1"), JStr("c1")),
    Interaction(JStr("1"), JUndef, JUndef, JUndef),
    \* no command of that name
    Interaction(JNum(2), JUndef, JStr("g1"), JStr("c1")),
    Interaction(JNum(2), Data(JNum(5), JUndef), JStr("g1"), JStr("c1")),
    Cmd("bogus", <<>>), Cmd("Kick", <<User>>), Cmd("", <<>>),
    Cmd("kick ", <<User>>), Cmd(" kick", <<User>>), Cmd("SETUP", <<Sub("view", JUndef)>>),
    Cmd("ping", <<>>), Cmd("help", <<>>),
    Cmd("serverinfo", <<>>), DmCmd("serverinfo", <<>>),
    Cmd("userinfo", <<User>>), Cmd("userinfo", <<>>), DmCmd("userinfo", <<User>>),
    Cmd("avatar", <<User>>), DmCmd("avatar", <<>>),
    KickValue, DmCmd("kick", <<User>>), Cmd("kick", <<>>),
    Cmd("kick", <<Opt("reason", JStr("because")), User>>),
    Interaction(JNum(2), Data(JStr("kick"), JStr("abc")), JStr("g1"), JStr("c1")),
    Interaction(JNum(2), Data(JStr("kick"), JUndef), JStr("g1"), JStr("c1")),
    Cmd("ban", <<User>>), Cmd("ban", <<User, Opt("delete_days", JNum(7))>>),
    Cmd("ban", <<>>),
    Cmd("unban", <<Opt("user_id", JStr("u1"))>>), Cmd("unban", <<>>),
    Cmd("untimeout", <<User>>), Cmd("untimeout", <<>>),
    \* no guild id, an empty guild id, no user or an empty user
    DmCmd("ban", <<User>>), DmCmd("untimeout", <<User>>),
    DmCmd("unban", <<Opt("user_id", JStr("u1"))>>),
    Cmd("unban", <<Opt("user_id", JStr(""))>>),
    Cmd("kick", <<Opt("user", JStr(""))>>),
    Cmd("timeout", <<Opt("duration", JStr("10m"))>>),
    Interaction(JNum(2), Data(JStr("kick"), JArr(<<User>>)), JStr(""), JStr("c1")),
    DmCmd("timeout", <<User, Opt("duration", JStr("10m"))>>),
    Cmd("timeout", <<User>>),
    Cmd("setup", <<>>), DmCmd("setup", <<Sub("view", JUndef)>>),
    Cmd("setup", <<Sub("view", JUndef)>>),
    Cmd("setup", <<Sub("other", JUndef)>>), Cmd("setup", <<Sub("View", JUndef)>>),
    Cmd("setup", <<Sub("view", JUndef),
                   Sub("logs", JArr(<<Opt("channel", JStr("c2"))>>))>>),
    Cmd("setup", <<Sub("logs", JArr(<<Opt("channel", JStr("c2"))>>)),
                   Sub("view", JUndef)>>),
    Cmd("setup", <<Sub("view", JUndef),
                   Sub("logging", JArr(<<Opt("channel", JStr("c2"))>>))>>),
    Cmd("setup", <<Sub("logging", JArr(<<Opt("channel", JStr("c2"))>>)),
                   Sub("view", JUndef)>>),
    Cmd("setup", <<Sub("logs", JArr(<<Opt("channel", JStr("c2"))>>))>>),
    Cmd("setup", <<Sub("logs", JUndef)>>),
    Cmd("setup", <<Sub("logs", JStr("abc"))>>),
    Cmd("setup", <<Sub("logging", JArr(<<Opt("channel", JStr("c2"))>>))>>),
    Cmd("setup", <<Sub("automod", JUndef)>>),
    Cmd("setup", <<Sub("automod", JArr(<<Opt("anti_spam", JBool(FALSE))>>))>>),
    Cmd("setup", <<Sub("automod", JArr(<<Opt("block_invites", JBool(TRUE)),
                                         Opt("mention_limit", JNum(3))>>))>>),
    Cmd("setup", <<Sub("automod", JArr(<<Opt("mention_spam", JStr("abc"))>>))>>),
    Cmd("setup", <<Sub("automod", JArr(<<Opt("mention_limit", JStr("abc")),
                                         Opt("block_invites", JNum(1))>>))>>),
    Interaction(JNum(2), Data(JStr("purge"), JArr(<<Opt("count", JNum(1))>>)),
                JStr("g1"), JUndef),
    DmCmd("purge", <<Opt("count", JNum(1))>>),
    Cmd("purge", <<Opt("count", JNum(1)), Opt("include_bots", JBool(FALSE))>>) }
  \cup { Cmd("timeout", <<User, Opt("duration", JStr(d))>>) :
           d \in {"10m", "1d2h30m", "abc", "0m", "29d", "3s", "1h junk", " 1 D ",
                  "5s", "28d", "x10m", "10min", "10 M", "1h,30m", "1.5h", "m10"} }
  \cup { Cmd("purge", <<Opt("count", n)>>) :
           n \in {JNum(0), JNum(1), JNum(100), JNum(101), [t |-> "number", n |-> 2, h |-> TRUE], JStr("abc")} }
  \cup { Cmd("purge", <<>>) }

\* the text of a body: the JSON text of a value, or that text damaged
Forms == {"json", "truncated", "trailing", "nocolon", "empty"}
Render(val, form) ==
  LET text == Encode(val) IN
  CASE form = "json" -> text
    [] form = "truncated" -> SubSeq(text, 1, Len(text) - 1)
    [] form = "trailing" -> text \o <<P("}")>>
    [] form = "nocolon" -> SubSeq(text, 1, 2) \o SubSeq(text, 4, Len(text))
    [] form = "empty" -> <<>>

GoodTimestamp == Text(<<"1", "7">>)

\* How a request was made: the platform signs GoodTimestamp and the body
\* Render(val, form) with ServerKey; the request then carries the headers and
\* the body changed as tk, sk and mut say.
Gen(val, form, tk, sk, mut, pos) ==
  [val |-> val, form |-> form, tk |-> tk, sk |-> sk, mut |-> mut, pos |-> pos]
SignedBody(gen) == Render(gen.val, gen.form)
SignedMessage(gen) == GoodTimestamp \o SignedBody(gen)

SigKinds == {"good", "upper", "junk", "odd", "short", "long", "nonhex", "empty",
             "missing", "otherkey"}

\* the headers and the body sent: with mut, one character of the timestamp,
\* one token of the body or one byte of the signature replaced by another
SentTimestamp(gen) ==
  CASE gen.tk = "missing" -> NoHeader
    [] gen.tk = "empty" -> Header(<<>>)
    [] gen.mut = "ts" -> Header([GoodTimestamp EXCEPT
                              ![gen.pos] = IF @ = P("0") THEN P("1") ELSE P("0")])
    [] OTHER -> Header(GoodTimestamp)
SentBody(gen) ==
  IF gen.mut = "raw"
  THEN [SignedBody(gen) EXCEPT ![gen.pos] = IF @ = N(0) THEN N(1) ELSE N(0)]
  ELSE SignedBody(gen)
SentSignature(gen) ==
  LET sig == Sign(ServerKey, SignedMessage(gen)) IN
  CASE gen.sk = "missing" -> NoHeader
    [] gen.sk = "empty" -> Header(<<>>)
    [] gen.sk = "upper" -> Header(HexWith(HexDigitsUpper, sig))
    [] gen.sk = "junk" -> Header(ToHex(sig) \o Text(<<"z", "z">>))
    [] gen.sk = "odd" -> Header(ToHex(sig) \o Text(<<"0">>))
    [] gen.sk = "short" -> Header(ToHex(SubSeq(sig, 1, SigLen - 1)))
    [] gen.sk = "long" -> Header(ToHex(sig \o <<0>>))
    [] gen.sk = "nonhex" -> Header([i \in 1..(2 * SigLen) |-> P("z")])
    [] gen.sk = "otherkey" -> Header(ToHex(Sign(OtherKey, SignedMessage(gen))))
    [] gen.mut = "sig" -> Header(ToHex([sig EXCEPT ![gen.pos] = (@ + 1) % 256]))
    [] OTHER -> Header(ToHex(sig))

Gens ==
  { Gen(val, "json", "good", "good", "none", 0) : val \in Values }
  \cup { Gen(val, form, "good", "good", "none", 0) :
           val \in {PingValue, KickValue}, form \in Forms }
  \cup { Gen(val, "json", tk, sk, "none", 0) :
           val \in {PingValue, KickValue}, tk \in {"good", "missing", "empty"}, sk \in SigKinds }
  \cup { Gen(PingValue, "json", "good", "good", "ts", pos) :
           pos \in 1..Len(GoodTimestamp) }
  \cup { Gen(PingValue, "json", "good", "good", "raw", pos) :
           pos \in 1..Len(Encode(PingValue)) }
  \cup { Gen(KickValue, "json", "good", "good", "raw", pos) :
           pos \in {1, 4, Len(Encode(KickValue))} }
  \cup { Gen(PingValue, "json", "good", "good", "sig", pos) : pos \in 1..SigLen }
NoGen == Gen(JUndef, "empty", "missing", "missing", "none", 0)

\* method and url of the requests that are no POST /interactions
OtherRoutes == { <<"GET", "/">>, <<"GET", "/interactions">>, <<"POST", "/">>,
                 <<"PUT", "/interactions">> }


(***************************************************************************)
(* The HTTP server.                                                        *)
(***************************************************************************)
\* the body of a response
Body(kind, text, envl) == [kind |-> kind, text |-> text, envl |-> envl]
ErrorBody(msg) == Body("json", msg, NoEnvelope)

\* the response object: how often it was ended, and what was written
NoRes == [ended |-> 0, status |-> 0, body |-> Body("none", "", NoEnvelope)]
sendTextOk(res, status, text) ==
  [ended |-> res.ended + 1, status |-> 200, body |-> Body("text", text, NoEnvelope)]
\* sendJson(res, status, obj) and json(res, status, obj); sendText and
\* res.writeHead + res.end
sendJson(res, status, body) ==
  [ended |-> res.ended + 1, status |-> status, body |-> body]
sendText(res, status, text) ==
  [ended |-> res.ended + 1, status |-> status, body |-> Body("text", text, NoEnvelope)]

\* what the handler reads of an interaction: isChatInputCommand(),
\* commandName, whether it has a guild and a text channel, the subcommand
\* ("" for none), whether the options channel, user and count are given, and
\* the option duration
GatewayInteraction(chat, name, guild, sub, opts, duration) ==
  [chat |-> chat, name |-> name, guild |-> guild, text |-> guild, sub |-> sub,
   channel |-> opts, user |-> opts, count |-> opts, duration |-> duration]
NoInteraction == GatewayInteraction(FALSE, "", FALSE, "", FALSE, JUndef)

\* a request: where its processing is (pc), what it carries, what the server
\* computed for it, the REST calls made for it and how many of them failed,
\* the router states it went through, and its response; for the gateway bot
\* the interaction, whether its reply was deferred, whether it was replied to
IdleReq ==
  [pc |-> "idle", method |-> "", url |-> "", signature |-> NoHeader,
   timestamp |-> NoHeader, raw |-> <<>>, gen |-> NoGen,
   valid |-> JUndef, interaction |-> JUndef, cmd |-> "",
   at |-> "", loc |-> NoLoc, pending |-> NoCall, calls |-> <<>>, fails |-> 0,
   path |-> <<>>, res |-> NoRes,
   gi |-> NoInteraction, deferred |-> FALSE, replied |-> FALSE]

\* the module's top level, up to server.listen
Startup ==
  /\ proc = "init"
  /\ IF variant = "index"
     THEN /\ proc' = IF ~env.DISCORD_TOKEN \/ ~env.CLIENT_ID \/ env.PUBLIC_KEY = <<>>
                     THEN "exited"
                     ELSE IF ~publicKeyToPemFromHex(env.PUBLIC_KEY).loaded
                     THEN "crashed"
                     ELSE "running"
          /\ PUBLIC_KEY_PEM' = IF proc' = "running"
                               THEN publicKeyToPemFromHex(env.PUBLIC_KEY)
                               ELSE NoPem
          /\ config' = IF proc' = "exited" THEN config ELSE disk
     ELSE IF variant = "part_000"
     THEN /\ proc' = IF ~env.DISCORD_TOKEN \/ ~env.CLIENT_ID THEN "exited"
                     ELSE "running"
          /\ PUBLIC_KEY_PEM' = NoPem
          /\ config' = IF proc' = "exited" THEN config ELSE disk
     ELSE /\ proc' = "running"
          /\ PUBLIC_KEY_PEM' = IF env.PUBLIC_KEY = <<>> THEN NoPem
                               ELSE publicKeyToPemFromHex(env.PUBLIC_KEY)
          /\ config' = disk
  /\ UNCHANGED <<variant, env, disk, reqs, served, rules, nextRule>>

\* the server's request callback for a request that is no POST /interactions,
\* and for every request to the web listener of the gateway bot
Route(s) ==
  /\ proc = "running"
  /\ reqs[s].pc = "idle"
  /\ served < MaxRequests
  /\ \E route \in OtherRoutes \cup
                    (IF variant = "part_000" THEN {<<"POST", "/interactions">>} ELSE {}) :
       LET res == IF route = <<"GET", "/">>
                  THEN sendText(NoRes, 200,
                                IF variant = "index" THEN "OK"
                                ELSE IF variant = "part_000" THEN "running"
                                ELSE IF PUBLIC_KEY_PEM.loaded THEN "Status: OK"
                                ELSE "Status: PUBLIC_KEY_ERROR")
                  ELSE sendText(NoRes, 404, "Not found")
       IN reqs' = [reqs EXCEPT ![s] = [IdleReq EXCEPT !.pc = "done",
                     !.method = route[1], !.url = route[2], !.res = res]]
  /\ served' = served + 1
  /\ UNCHANGED <<variant, env, proc, PUBLIC_KEY_PEM, config, disk, rules, nextRule>>

\* the server's request callback for POST /interactions, and the data events:
\* headers read, body collected
Receive(s) ==
  /\ proc = "running"
  /\ variant # "part_000"
  /\ reqs[s].pc = "idle"
  /\ served < MaxRequests
  /\ \E gen \in Gens :
       reqs' = [reqs EXCEPT ![s] = [IdleReq EXCEPT !.pc = "received",
                  !.method = "POST", !.url = "/interactions",
                  !.signature = SentSignature(gen),
                  !.timestamp = SentTimestamp(gen),
                  !.raw = SentBody(gen), !.gen = gen,
                  !.path = <<"Received">>]]
  /\ served' = served + 1
  /\ UNCHANGED <<variant, env, proc, PUBLIC_KEY_PEM, config, disk, rules, nextRule>>

\* Settle without the catch of the end callback: after a throw the request
\* hangs, with no response written
SettleUncaught(r, out) ==
  CASE out.k = "await" ->
         [r EXCEPT !.pc = "await", !.at = out.at, !.loc = out.loc,
                   !.pending = out.call, !.calls = Append(@, out.call)]
    [] out.k = "return" ->
         [r EXCEPT !.pc = "done", !.at = "", !.loc = NoLoc, !.pending = NoCall,
                   !.path = Append(@, "Responded"),
                   !.res = sendJson(@, 200, Body("json", "", out.env))]
    [] out.k = "throw" -> [r EXCEPT !.pc = "hung"]
\* Settle answering 200 after the 500 of a handler that threw
SettleTwice(r, out) ==
  CASE out.k = "await" ->
         [r EXCEPT !.pc = "await", !.at = out.at, !.loc = out.loc,
                   !.pending = out.call, !.calls = Append(@, out.call)]
    [] out.k = "return" ->
         [r EXCEPT !.pc = "done", !.at = "", !.loc = NoLoc, !.pending = NoCall,
                   !.path = Append(@, "Responded"),
                   !.res = sendJson(@, 200, Body("json", "", out.env))]
    [] out.k = "throw" ->
         [r EXCEPT !.pc = "done", !.at = "", !.loc = NoLoc, !.pending = NoCall,
                   !.path = @ \o <<"Errored", "Responded">>,
                   !.res = sendJson(sendJson(@, 500, ErrorBody("server error")),
                                    200, Body("json", "", NoEnvelope))]
\* what the end callback does with the outcome of the handler's run
Settle(r, out) ==
  CASE out.k = "await" ->
         [r EXCEPT !.pc = "await", !.at = out.at, !.loc = out.loc,
                   !.pending = out.call, !.calls = Append(@, out.call)]
    [] out.k = "return" ->
         [r EXCEPT !.pc = "done", !.at = "", !.loc = NoLoc, !.pending = NoCall,
                   !.path = Append(@, "Responded"),
                   !.res = sendJson(@, 200, Body("json", "", out.env))]
    [] out.k = "throw" ->
         [r EXCEPT !.pc = "done", !.at = "", !.loc = NoLoc, !.pending = NoCall,
                   !.path = Append(@, "Errored"),
                   !.res = sendJson(@, 500, ErrorBody("server error"))]

\* Apply with the request and its response kept in one place for the whole
\* server instead of per request
ApplyShared(s, r, out) ==
  /\ reqs' = [reqs EXCEPT ![1] = Settle(r, out)]
  /\ config' = out.cfg
  /\ disk' = out.disk
\* the request and the configuration after a run of the handler
Apply(s, r, out) ==
  /\ reqs' = [reqs EXCEPT ![s] = Settle(r, out)]
  /\ config' = out.cfg
  /\ disk' = out.disk

\* the context of a handler's run
Context(r, ret) ==
  [v |-> variant, inter |-> r.interaction, at |-> r.at, loc |-> r.loc,
   ret |-> ret, cfg |-> config, disk |-> disk]

\* the end callback: verify, parse, route, up to the handler's first await
Routed(s, r, cmd) ==
  IF cmd = "throw"
  THEN Apply(s, [r EXCEPT !.cmd = cmd, !.path = Append(@, "Parsed")],
             Throw(config, disk))
  ELSE Apply(s, [r EXCEPT !.cmd = cmd, !.path = @ \o <<"Parsed", "Dispatched">>],
             Run(Context(r, NoRet), cmd, env.DISCORD_TOKEN))

Parsed(s, r, interaction) ==
  IF Thrown(interaction)
  THEN Apply(s, r, Throw(config, disk))
  ELSE Routed(s, [r EXCEPT !.interaction = interaction],
              Resolve(variant, interaction))

VerifiedAnyway(s, r, valid) ==
  IF Thrown(valid)
  THEN Apply(s, [r EXCEPT !.valid = valid], Throw(config, disk))
  ELSE Parsed(s, [r EXCEPT !.valid = valid, !.path = Append(@, "Verified")],
              JsonParse(r.raw))

Verified(s, r, valid) ==
  IF Thrown(valid)
  THEN Apply(s, [r EXCEPT !.valid = valid], Throw(config, disk))
  ELSE IF ~valid.b
  THEN /\ reqs' = [reqs EXCEPT ![s] = [r EXCEPT !.valid = valid, !.pc = "done",
                      !.path = Append(@, "Rejected"),
                      !.res = sendJson(@, 401, ErrorBody("invalid request signature"))]]
       /\ UNCHANGED <<config, disk>>
  ELSE Parsed(s, [r EXCEPT !.valid = valid, !.path = Append(@, "Verified")],
              JsonParse(r.raw))

OnEnd(s) ==
  /\ reqs[s].pc = "received"
  /\ Verified(s, reqs[s],
              verifyDiscordRequest(variant, PUBLIC_KEY_PEM, reqs[s].signature,
                                   reqs[s].timestamp, reqs[s].raw))
  /\ UNCHANGED <<variant, env, proc, PUBLIC_KEY_PEM, served, rules, nextRule>>

\* what the platform can answer to a REST call
Outcomes(call) ==
  {FailRet} \cup
  CASE call.op = "GET messages" -> { Ret(TRUE, n, b, 0) : n \in 0..1, b \in 0..1 }
    [] call.op = "POST rule" ->
         IF nextRule <= MaxRules THEN {Ret(TRUE, 0, 0, nextRule)} ELSE {}
    [] call.op = "DELETE rule" -> IF call.x.n \in rules THEN {NoRet} ELSE {}
    [] OTHER -> {NoRet}

\* a REST call returns or fails, and the handler runs on up to its next
\* await, its return or its throw
RestReturn(s) ==
  /\ reqs[s].pc = "await"
  /\ \E ret \in Outcomes(reqs[s].pending) :
       /\ Apply(s, [reqs[s] EXCEPT !.fails = IF ret.ok THEN @ ELSE @ + 1],
                Run(Context(reqs[s], ret), reqs[s].cmd, env.DISCORD_TOKEN))
       /\ rules' = IF ~ret.ok THEN rules
                   ELSE IF reqs[s].pending.op = "POST rule" THEN rules \cup {ret.id}
                   ELSE IF reqs[s].pending.op = "DELETE rule"
                   THEN rules \ {reqs[s].pending.x.n}
                   ELSE rules
       /\ nextRule' = IF ret.ok /\ reqs[s].pending.op = "POST rule"
                      THEN nextRule + 1 ELSE nextRule
  /\ UNCHANGED <<variant, env, proc, PUBLIC_KEY_PEM, served>>

\* Close dropping the loaded key with the connection
CloseForgetsKey(s) ==
  /\ reqs[s].pc = "done"
  /\ reqs' = [reqs EXCEPT ![s] = IdleReq]
  /\ PUBLIC_KEY_PEM' = NoPem
  /\ UNCHANGED <<variant, env, proc, config, disk, served, rules, nextRule>>
\* the connection of an answered request closes
Close(s) ==
  /\ reqs[s].pc = "done"
  /\ reqs' = [reqs EXCEPT ![s] = IdleReq]
  /\ UNCHANGED <<variant, env, proc, PUBLIC_KEY_PEM, config, disk, served,
                 rules, nextRule>>



(***************************************************************************)
(* The gateway bot (part_000): the interactionCreate handler.  It runs     *)
(* from a point `at` up to its next await or its end;                      *)
(*   c = [gi, at, ret, cfg, disk, deferred, replied]                       *)
(* with gi what the handler reads of the interaction.                      *)
(***************************************************************************)
GatewayInteractions ==
  { NoInteraction,
    GatewayInteraction(FALSE, "kick", TRUE, "", TRUE, JUndef),
    GatewayInteraction(TRUE, "setup", TRUE, "view", FALSE, JUndef),
    GatewayInteraction(TRUE, "setup", TRUE, "other", FALSE, JUndef),
    GatewayInteraction(TRUE, "timeout", TRUE, "", TRUE, JStr("10m")),
    GatewayInteraction(TRUE, "timeout", TRUE, "", TRUE, JStr("abc")),
    GatewayInteraction(TRUE, "timeout", TRUE, "", TRUE, JStr("29d")),
    GatewayInteraction(TRUE, "timeout", TRUE, "", TRUE, JStr("3s")),
    GatewayInteraction(TRUE, "timeout", TRUE, "", TRUE, JStr("5s")),
    GatewayInteraction(TRUE, "timeout", TRUE, "", TRUE, JStr("28d")),
    GatewayInteraction(TRUE, "timeout", TRUE, "", TRUE, JStr("1h,30m")),
    GatewayInteraction(TRUE, "timeout", TRUE, "", TRUE, JStr("m10")) }
  \cup { GatewayInteraction(TRUE, name, guild, "", opts, JUndef) :
           name \in {"ping", "help", "serverinfo", "setup", "purge", "kick", "ban",
                     "timeout", "untimeout", "userinfo"},
           guild \in BOOLEAN, opts \in BOOLEAN }
  \cup { GatewayInteraction(TRUE, "setup", TRUE, "logs", opts, JUndef) :
           opts \in BOOLEAN }

GwAwait(call, at, cfg, dsk) ==
  [k |-> "await", call |-> call, at |-> at, cfg |-> cfg, disk |-> dsk]
GwEnd(cfg, dsk) ==
  [k |-> "end", call |-> NoCall, at |-> "", cfg |-> cfg, disk |-> dsk]

\* await interaction.reply(...), deferReply(...), editReply(...), with the
\* point where the handler goes on
Reply(c, content, ephemeral, at) ==
  GwAwait(Call("reply", JUndef, JUndef, reply(content, JUndef, ephemeral)), at,
          c.cfg, c.disk)
DeferReply(c, at) ==
  GwAwait(Call("deferReply", JUndef, JUndef, NoEnvelope), at, c.cfg, c.disk)
EditReply(c, content, at) ==
  GwAwait(Call("editReply", JUndef, JUndef, reply(content, JUndef, TRUE)), at,
          c.cfg, c.disk)
\* await of a call to the platform that is no response
Fetch(c, op, at) == GwAwait(Call(op, JStr("g1"), JUndef, JUndef), at, c.cfg, c.disk)

\* the catch block answering by a fresh reply whatever was acknowledged
CaughtFresh(c, n) ==
  LET text == [t |-> "string", len |-> IF n > ErrorTextMax THEN ErrorTextMax ELSE n]
      envl == reply("Error", text, TRUE)
  IN GwAwait(Call("reply", JUndef, JUndef, envl), "caught", c.cfg, c.disk)
\* the catch block for an error whose message has n characters: edit the
\* reply when there is one, reply otherwise, with the message cut by
\* slice(0, 1800) (ref is the cut message, known by its length); a failure of
\* either is swallowed
Caught(c, n) ==
  LET text == [t |-> "string", len |-> IF n > ErrorTextMax THEN ErrorTextMax ELSE n]
      envl == reply("Error", text, TRUE)
  IN IF c.deferred \/ c.replied
     THEN GwAwait(Call("editReply", JUndef, JUndef, envl), "caught", c.cfg, c.disk)
     ELSE GwAwait(Call("reply", JUndef, JUndef, envl), "caught", c.cfg, c.disk)

\* sendLog(guild, content) of part_000, from its start
GatewaySendLog(c) ==
  IF ~Truthy(guildCfg("part_000", c.cfg, "g1").guilds["g1"].log_channel_id)
  THEN GwEnd(guildCfg("part_000", c.cfg, "g1"), c.disk)
  ELSE GwAwait(Call("fetch channel", JStr("g1"),
                    guildCfg("part_000", c.cfg, "g1").guilds["g1"].log_channel_id,
                    JUndef), "log-fetch",
               guildCfg("part_000", c.cfg, "g1"), c.disk)

\* the handler at its entry; the message of the library's error for a
\* required option that is missing is short (its length counts as 1)
GatewayEntry(c) ==
  LET gi == c.gi
      NoGuild == Reply(c, "Run this inside a server.", TRUE, "final")
      WithCfg == [c EXCEPT !.cfg = guildCfg("part_000", c.cfg, "g1")]
      Unknown(d) == Reply(d, "Unknown command.", TRUE, "final")
  IN
  IF ~gi.chat THEN GwEnd(c.cfg, c.disk)
  ELSE CASE gi.name = "ping" -> Reply(c, "Pong!", TRUE, "final")
    [] gi.name = "help" -> Reply(c, "Utility Bot Commands", TRUE, "final")
    [] gi.name = "serverinfo" ->
         IF ~gi.guild THEN NoGuild ELSE Fetch(c, "fetchOwner", "owner")
    [] gi.name = "setup" ->
         IF ~gi.guild THEN NoGuild
         ELSE IF gi.sub = "" THEN Caught(c, 1)
         ELSE IF gi.sub = "view"
         THEN GwAwait(Call("reply", JUndef, JUndef,
                           reply("Current Setup", WithCfg.cfg.guilds["g1"].log_channel_id,
                                 TRUE)),
                      "final", WithCfg.cfg, WithCfg.disk)
         ELSE IF gi.sub = "logs"
         THEN IF ~gi.channel THEN Caught(WithCfg, 1)
              ELSE Reply([c EXCEPT
                            !.cfg = [WithCfg.cfg EXCEPT !.guilds["g1"].log_channel_id = JStr("c2")],
                            !.disk = [WithCfg.cfg EXCEPT !.guilds["g1"].log_channel_id = JStr("c2")]],
                         "Log channel set", TRUE, "content")
         ELSE Unknown(WithCfg)
    [] gi.name = "purge" ->
         IF ~gi.guild \/ ~gi.text
         THEN Reply(c, "Run this in a server text channel.", TRUE, "final")
         ELSE IF ~gi.count THEN Caught(c, 1)
         ELSE DeferReply(c, "deferred")
    [] gi.name \in {"kick", "ban", "timeout", "untimeout"} ->
         IF ~gi.guild THEN NoGuild
         ELSE IF ~gi.user THEN Caught(c, 1)
         ELSE DeferReply(c, "deferred")
    [] OTHER -> Unknown(c)

\* the handler going on with a member it could not fetch
interactionCreateAnyMember(c) ==
  CASE c.at = "" -> GatewayEntry(c)
    [] c.at = "owner" -> Reply(c, "Server Info", FALSE, "final")
    [] c.at = "deferred" ->
         IF ~c.ret.ok THEN Caught(c, c.ret.n)
         ELSE IF c.gi.name = "purge" THEN Fetch(c, "fetch messages", "list")
         ELSE IF c.gi.name = "ban" THEN Fetch(c, "ban", "act")
         ELSE Fetch(c, "fetch member", "member")
    [] c.at = "list" ->
         IF ~c.ret.ok THEN Caught(c, c.ret.n) ELSE Fetch(c, "bulkDelete", "bulk")
    [] c.at = "bulk" ->
         IF ~c.ret.ok THEN EditReply(c, "Could not bulk delete.", "final")
         ELSE EditReply(c, "Deleted", "content")
    [] c.at = "member" ->
         IF c.gi.name = "kick" THEN Fetch(c, "kick", "act")
         \* member.timeout(null, reason)
         ELSE IF c.gi.name = "untimeout"
         THEN GwAwait(Call("timeout", JStr("g1"), JUndef, JNull), "act", c.cfg, c.disk)
         ELSE IF c.gi.duration = JUndef THEN Caught(c, 1)
         ELSE IF BadDuration(parseDurationToMs(c.gi.duration))
         THEN EditReply(c, "Invalid duration.", "final")
         \* member.timeout(ms, reason)
         ELSE GwAwait(Call("timeout", JStr("g1"), JUndef,
                           JNum(parseDurationToMs(c.gi.duration).s)),
                      "act", c.cfg, c.disk)
    [] c.at = "act" ->
         IF ~c.ret.ok THEN Caught(c, c.ret.n) ELSE EditReply(c, "Done", "content")
    [] c.at = "content" -> IF ~c.ret.ok THEN Caught(c, c.ret.n) ELSE GatewaySendLog(c)
    [] c.at = "final" -> IF ~c.ret.ok THEN Caught(c, c.ret.n) ELSE GwEnd(c.cfg, c.disk)
    [] c.at = "log-fetch" ->
         IF ~c.ret.ok THEN GwEnd(c.cfg, c.disk)
         ELSE GwAwait(Call("send", JStr("g1"), JUndef, JUndef), "log", c.cfg, c.disk)
    [] c.at \in {"caught", "log"} -> GwEnd(c.cfg, c.disk)
\* the handler from c.at on, c.ret what the awaited call returned
interactionCreate(c) ==
  CASE c.at = "" -> GatewayEntry(c)
    [] c.at = "owner" -> Reply(c, "Server Info", FALSE, "final")
    [] c.at = "deferred" ->
         IF ~c.ret.ok THEN Caught(c, c.ret.n)
         ELSE IF c.gi.name = "purge" THEN Fetch(c, "fetch messages", "list")
         ELSE IF c.gi.name = "ban" THEN Fetch(c, "ban", "act")
         ELSE Fetch(c, "fetch member", "member")
    [] c.at = "list" ->
         IF ~c.ret.ok THEN Caught(c, c.ret.n) ELSE Fetch(c, "bulkDelete", "bulk")
    [] c.at = "bulk" ->
         IF ~c.ret.ok THEN EditReply(c, "Could not bulk delete.", "final")
         ELSE EditReply(c, "Deleted", "content")
    [] c.at = "member" ->
         IF ~c.ret.ok THEN EditReply(c, "User not found in this server.", "final")
         ELSE IF c.gi.name = "kick" THEN Fetch(c, "kick", "act")
         \* member.timeout(null, reason)
         ELSE IF c.gi.name = "untimeout"
         THEN GwAwait(Call("timeout", JStr("g1"), JUndef, JNull), "act", c.cfg, c.disk)
         ELSE IF c.gi.duration = JUndef THEN Caught(c, 1)
         ELSE IF BadDuration(parseDurationToMs(c.gi.duration))
         THEN EditReply(c, "Invalid duration.", "final")
         \* member.timeout(ms, reason)
         ELSE GwAwait(Call("timeout", JStr("g1"), JUndef,
                           JNum(parseDurationToMs(c.gi.duration).s)),
                      "act", c.cfg, c.disk)
    [] c.at = "act" ->
         IF ~c.ret.ok THEN Caught(c, c.ret.n) ELSE EditReply(c, "Done", "content")
    [] c.at = "content" -> IF ~c.ret.ok THEN Caught(c, c.ret.n) ELSE GatewaySendLog(c)
    [] c.at = "final" -> IF ~c.ret.ok THEN Caught(c, c.ret.n) ELSE GwEnd(c.cfg, c.disk)
    [] c.at = "log-fetch" ->
         IF ~c.ret.ok THEN GwEnd(c.cfg, c.disk)
         ELSE GwAwait(Call("send", JStr("g1"), JUndef, JUndef), "log", c.cfg, c.disk)
    [] c.at \in {"caught", "log"} -> GwEnd(c.cfg, c.disk)

\* the context of the handler's run for request r
GatewayContext(r, ret) ==
  [gi |-> r.gi, at |-> r.at, ret |-> ret, cfg |-> config, disk |-> disk,
   deferred |-> r.deferred, replied |-> r.replied]

\* the request and the configuration after a run of the handler
GatewayApply(s, r, out) ==
  /\ reqs' = [reqs EXCEPT ![s] =
       IF out.k = "end"
       THEN [r EXCEPT !.pc = "done", !.at = "", !.pending = NoCall]
       ELSE [r EXCEPT !.pc = "gw-await", !.at = out.at, !.pending = out.call,
                      !.calls = Append(@, out.call)]]
  /\ config' = out.cfg
  /\ disk' = out.disk

\* the request after the platform answered its pending call: a reply or an
\* edit that succeeded is written, a deferral that succeeded is noted
Answered(r, ret) ==
  IF ~ret.ok THEN [r EXCEPT !.fails = @ + 1]
  ELSE IF r.pending.op \in {"reply", "editReply"}
  THEN [r EXCEPT !.replied = TRUE,
                 !.res = [ended |-> @.ended + 1, status |-> 0,
                          body |-> Body("message", "", r.pending.d)]]
  ELSE IF r.pending.op = "deferReply" THEN [r EXCEPT !.deferred = TRUE]
  ELSE r

\* the client emits interactionCreate: the handler runs up to its first await
GatewayEvent(s) ==
  /\ proc = "running"
  /\ variant = "part_000"
  /\ reqs[s].pc = "idle"
  /\ served < MaxRequests
  /\ \E gi \in GatewayInteractions :
       GatewayApply(s, [IdleReq EXCEPT !.gi = gi],
                    interactionCreate(GatewayContext([IdleReq EXCEPT !.gi = gi], NoRet)))
  /\ served' = served + 1
  /\ UNCHANGED <<variant, env, proc, PUBLIC_KEY_PEM, rules, nextRule>>

\* an awaited call of the handler returns or fails, and the handler runs on
GatewayReturn(s) ==
  /\ reqs[s].pc = "gw-await"
  /\ \E ret \in {NoRet} \cup { Ret(FALSE, n, 0, 0) :
                                   n \in {1, ErrorTextMax, ErrorTextMax + 1} } :
       GatewayApply(s, Answered(reqs[s], ret),
                    interactionCreate(GatewayContext(Answered(reqs[s], ret), ret)))
  /\ UNCHANGED <<variant, env, proc, PUBLIC_KEY_PEM, served, rules, nextRule>>

(***************************************************************************)
(* The specification.                                                      *)
(***************************************************************************)
Init ==
  /\ variant \in Variants
  /\ env \in Envs
  /\ variant = "part_000" => env.PUBLIC_KEY = ToHex(ServerKey)
  /\ proc = "init"
  /\ PUBLIC_KEY_PEM = NoPem
  /\ disk \in ConfigFiles(variant)
  /\ config = [guilds |-> <<>>]
  /\ reqs = [s \in Slots |-> IdleReq]
  /\ served = 0
  /\ rules = {}
  /\ nextRule = 1

Next ==
  \/ Startup
  \/ \E s \in Slots : Route(s)
  \/ \E s \in Slots : Receive(s)
  \/ \E s \in Slots : OnEnd(s)
  \/ \E s \in Slots : RestReturn(s)
  \/ \E s \in Slots : Close(s)
  \/ \E s \in Slots : GatewayEvent(s)
  \/ \E s \in Slots : GatewayReturn(s)

Spec == Init /\ [][Next]_vars

(***************************************************************************)
(* Concurrent requests to an HTTP server.  Node runs one callback at a     *)
(* time, and a handler gives way only at an await: the steps of the        *)
(* requests (end callback up to the first await, resumption after a REST   *)
(* call) interleave in any order.  The server runs with a good key; the    *)
(* requests are correctly signed commands.                                 *)
(***************************************************************************)
ConcGens ==
  { Gen(val, "json", "good", "good", "none", 0) :
      val \in { PingValue, KickValue, Cmd("kick", <<Opt("user", JStr("u2"))>>),
                Cmd("setup", <<Sub("logs", JArr(<<Opt("channel", JStr("c2"))>>))>>),
                Cmd("setup", <<Sub("logging", JArr(<<Opt("channel", JStr("c2"))>>))>>),
                Cmd("setup", <<Sub("automod", JUndef)>>),
                Cmd("setup", <<Sub("automod", JArr(<<Opt("anti_spam", JBool(FALSE))>>))>>),
                Cmd("setup", <<Sub("automod", JArr(<<Opt("block_invites", JBool(TRUE)),
                                                     Opt("mention_limit", JNum(3))>>))>>) } }

InitConc ==
  /\ variant \in {"index", "part_001"}
  /\ env = [PUBLIC_KEY |-> ToHex(ServerKey), DISCORD_TOKEN |-> TRUE, CLIENT_ID |-> TRUE]
  /\ proc = "init"
  /\ PUBLIC_KEY_PEM = NoPem
  /\ disk \in ConfigFiles(variant)
  /\ config = [guilds |-> <<>>]
  /\ reqs = [s \in 1..MaxConc |-> IdleReq]
  /\ served = 0
  /\ rules = {}
  /\ nextRule = 1

\* the request callback for POST /interactions on a free connection, whatever
\* the other connections are doing
ReceiveConc(s) ==
  /\ proc = "running"
  /\ reqs[s].pc = "idle"
  /\ served < MaxRequests
  /\ \E gen \in ConcGens :
       reqs' = [reqs EXCEPT ![s] = [IdleReq EXCEPT !.pc = "received",
                  !.method = "POST", !.url = "/interactions",
                  !.signature = SentSignature(gen),
                  !.timestamp = SentTimestamp(gen),
                  !.raw = SentBody(gen), !.gen = gen,
                  !.path = <<"Received">>]]
  /\ served' = served + 1
  /\ UNCHANGED <<variant, env, proc, PUBLIC_KEY_PEM, config, disk, rules, nextRule>>

NextConc ==
  \/ Startup
  \/ \E s \in 1..MaxConc : ReceiveConc(s)
  \/ \E s \in 1..MaxConc : OnEnd(s)
  \/ \E s \in 1..MaxConc : RestReturn(s)
  \/ \E s \in 1..MaxConc : Close(s)

SpecConc == InitConc /\ [][NextConc]_vars

(***************************************************************************)
(* Properties.                                                             *)
(***************************************************************************)
\* the request of slot s has been verified and found signed
Accepted(s) == reqs[s].pc \in {"await", "done"} /\ reqs[s].valid = JBool(TRUE)
\* the response of slot s is a message envelope with HTTP 200
MessageResponse(s) ==
  /\ reqs[s].res.ended = 1
  /\ reqs[s].res.status = 200
  /\ reqs[s].res.body.kind = "json"
  /\ reqs[s].res.body.envl.type = CHANNEL_MESSAGE_WITH_SOURCE
\* the response of slot s is the generic server error with HTTP 500
ServerError(s) == reqs[s].res = sendJson(NoRes, 500, ErrorBody("server error"))

\* C1: when the end callback finds the signature of a POST /interactions
\* request invalid, the request is answered 401 with the generic JSON error
\* and nothing else happens: the body is not parsed, no command is resolved
\* or run, no REST call is made, and the configuration, the file and the
\* platform's rules stay as they were.
C1_RejectedRequestDoesNothing ==
  [][\A s \in Slots :
       (reqs[s].pc = "received" /\ reqs'[s].pc # "received"
          /\ reqs'[s].valid = JBool(FALSE))
       => /\ reqs'[s].pc = "done"
          /\ reqs'[s].res = sendJson(NoRes, 401, ErrorBody("invalid request signature"))
          /\ reqs'[s].path = <<"Received", "Rejected">>
          /\ reqs'[s].interaction = JUndef
          /\ reqs'[s].cmd = ""
          /\ reqs'[s].calls = <<>>
          /\ config' = config
          /\ disk' = disk
          /\ rules' = rules]_vars

\* a signed request whose body was changed after signing has been rejected
C1_Witness ==
  \E s \in Slots :
    /\ reqs[s].pc = "done"
    /\ reqs[s].valid = JBool(FALSE)
    /\ reqs[s].gen.mut = "raw"
    /\ reqs[s].res.status = 401

\* C2: with the platform's key loaded, verifyDiscordRequest returns true for
\* a request whose signature was computed over the timestamp followed
\* directly by the body, whatever the body is, and false when one character
\* of the timestamp, one token of the body or one byte of the signature was
\* changed after signing.
C2_VerifyAcceptsSignedRejectsChanged ==
  \A s \in Slots :
    (/\ reqs[s].valid # JUndef
     /\ PUBLIC_KEY_PEM = [loaded |-> TRUE, key |-> ServerKey]
     /\ reqs[s].gen.tk = "good"
     /\ reqs[s].gen.sk = "good")
    => reqs[s].valid = JBool(reqs[s].gen.mut = "none")

\* a request whose timestamp was changed after signing has been verified
C2_Witness ==
  \E s \in Slots :
    /\ reqs[s].valid = JBool(FALSE)
    /\ PUBLIC_KEY_PEM = [loaded |-> TRUE, key |-> ServerKey]
    /\ reqs[s].gen.tk = "good"
    /\ reqs[s].gen.sk = "good"
    /\ reqs[s].gen.mut = "ts"

\* the text holds hex digits only, an even number of them
IsHexText(text) ==
  /\ Len(text) % 2 = 0
  /\ \A i \in 1..Len(text) :
       \E j \in 1..Len(HexDigits) : text[i].c \in {HexDigits[j], HexDigitsUpper[j]}

\* C3: verifyDiscordRequest returns false, and does not throw, when the key
\* is not loaded, when the signature or the timestamp header is missing or
\* empty, when the signature is no hex text or has not the length of a
\* signature, and when the signature is not the one of the message.
C3_VerifyFalseOnBadInput ==
  \A s \in Slots :
    (/\ reqs[s].valid # JUndef
     /\ \/ ~PUBLIC_KEY_PEM.loaded
        \/ Falsy(reqs[s].signature)
        \/ Falsy(reqs[s].timestamp)
        \/ ~IsHexText(reqs[s].signature.s)
        \/ Len(reqs[s].signature.s) # 2 * SigLen
        \/ ~CryptoVerify(VerifyMessage(reqs[s].timestamp, reqs[s].raw),
                         PUBLIC_KEY_PEM.key, BufferFromHex(reqs[s].signature.s)))
    => reqs[s].valid = JBool(FALSE)

\* the configured key is missing or is not 2 * KeyLen hex digits
BadKey == env.PUBLIC_KEY = <<>> \/ ~IsHexText(env.PUBLIC_KEY)
            \/ Len(env.PUBLIC_KEY) # 2 * KeyLen

\* C4: with a missing or malformed public key the process neither exits nor
\* crashes, GET / is answered 200 and every POST /interactions is answered
\* 401.
C4_BadKeyDegradedMode ==
  BadKey =>
    /\ proc \in {"init", "running"}
    /\ \A s \in Slots :
         reqs[s].pc = "done" =>
           /\ (reqs[s].method = "GET" /\ reqs[s].url = "/") => reqs[s].res.status = 200
           /\ (reqs[s].method = "POST" /\ reqs[s].url = "/interactions")
                => reqs[s].res.status = 401

\* C5: a signed request whose body is JSON with type 1 is answered 200 with
\* the Pong envelope, whatever its other members are, and no command is
\* looked up or run and no REST call made for it.
C5_PingAlwaysPong ==
  \A s \in Slots :
    (Accepted(s) /\ reqs[s].gen.form = "json"
       /\ Prop(reqs[s].gen.val, "type") = JNum(PING))
    => /\ reqs[s].pc = "done"
       /\ reqs[s].res = sendJson(NoRes, 200, Body("json", "", [type |-> PONG]))
       /\ reqs[s].cmd = "PONG"
       /\ reqs[s].calls = <<>>
       /\ reqs[s].path = <<"Received", "Verified", "Parsed", "Dispatched", "Responded">>

\* a ping that names a command and has options that are no list got its Pong
C5_Witness ==
  \E s \in Slots :
    /\ Accepted(s)
    /\ reqs[s].interaction =
         Interaction(JNum(PING), Data(JStr("kick"), JStr("abc")), JStr("g1"), JUndef)
    /\ reqs[s].res.status = 200
    /\ reqs[s].res.body.envl = [type |-> PONG]

\* the name of the command of an interaction: a registered one or not
Registered(v, val) ==
  LET name == OptProp(Prop(val, "data"), "name")
  IN name.t = "string" /\ name.s \in Commands(v)

\* C6: a signed request whose body is a JSON value other than null, with a
\* type other than 1 and a command name that is not registered, is answered
\* 200 with an ephemeral "Unknown command" message, and no REST call is made
\* for it.
C6_UnknownCommandIsGraceful ==
  \A s \in Slots :
    (Accepted(s) /\ reqs[s].gen.form = "json" /\ reqs[s].gen.val # JNull
       /\ Prop(reqs[s].gen.val, "type") # JNum(PING)
       /\ ~Registered(variant, reqs[s].gen.val))
    => /\ reqs[s].pc = "done"
       /\ MessageResponse(s)
       /\ reqs[s].res.body.envl.flags = EPHEMERAL
       /\ reqs[s].res.body.envl.content
            \in {"Unknown command.", "Unknown command. Try /help."}
       /\ reqs[s].calls = <<>>

\* a command whose name differs from a registered one in case was answered
C6_Witness ==
  \E s \in Slots :
    /\ Accepted(s)
    /\ reqs[s].pc = "done"
    /\ reqs[s].interaction = Cmd("Kick", <<User>>)
    /\ reqs[s].res.status = 200
    /\ reqs[s].res.body.envl.flags = EPHEMERAL

\* the request of slot s is an interaction: a POST /interactions request, or
\* an interactionCreate event of the gateway bot
IsInteraction(s) ==
  \/ reqs[s].method = "POST" /\ reqs[s].url = "/interactions" /\ variant # "part_000"
  \/ reqs[s].pc \in {"gw-await", "done"} /\ variant = "part_000" /\ reqs[s].method = ""

\* C7: no interaction is answered twice, and an interaction whose processing
\* has ended has been answered once.
C7_ExactlyOneResponse ==
  \A s \in Slots :
    IsInteraction(s) =>
      /\ reqs[s].res.ended <= 1
      /\ reqs[s].pc = "done" => reqs[s].res.ended = 1

\* C8: when a REST call made by a command handler has failed, the request is
\* answered 200 with an ephemeral message; and 500 is answered only to
\* requests that were not dispatched.
C8_RestFailureStillAnswers200 ==
  \A s \in Slots :
    reqs[s].pc = "done" =>
      /\ reqs[s].fails > 0 =>
           (MessageResponse(s) /\ reqs[s].res.body.envl.flags = EPHEMERAL)
      /\ reqs[s].res.status = 500 =>
           \A i \in 1..Len(reqs[s].path) : reqs[s].path[i] # "Dispatched"

\* C9: a signed request whose body is no JSON text ends Errored, answered
\* 500 with the generic server error; no command is resolved or run and no
\* REST call made for it.
C9_InvalidJsonIsServerError ==
  \A s \in Slots :
    (Accepted(s) /\ reqs[s].gen.form # "json")
    => /\ reqs[s].pc = "done"
       /\ ServerError(s)
       /\ reqs[s].path = <<"Received", "Verified", "Errored">>
       /\ reqs[s].interaction = JUndef
       /\ reqs[s].cmd = ""
       /\ reqs[s].calls = <<>>

\* a signed body with a token after the end of its JSON value was answered
C9_Witness ==
  \E s \in Slots :
    /\ Accepted(s)
    /\ reqs[s].gen.form = "trailing"
    /\ reqs[s].res.status = 500

\* the value has a member "type"
HasType(val) == val.t = "object" /\ "type" \in DOMAIN val.o

\* C10: a signed request whose body is JSON without a top-level member
\* "type" is answered with the generic server error and is not dispatched.
C10_MissingTypeFailsClosed ==
  \A s \in Slots :
    (Accepted(s) /\ reqs[s].gen.form = "json" /\ ~HasType(reqs[s].gen.val))
    => /\ reqs[s].pc = "done"
       /\ ServerError(s)
       /\ reqs[s].cmd \in {"", "throw"}
       /\ \A i \in 1..Len(reqs[s].path) : reqs[s].path[i] # "Dispatched"

\* the request of slot s was answered by the server's request callback alone
Unprocessed(s) ==
  /\ reqs[s].valid = JUndef
  /\ reqs[s].interaction = JUndef
  /\ reqs[s].cmd = ""
  /\ reqs[s].calls = <<>>
  /\ reqs[s].path = <<>>

\* C11: the HTTP servers answer GET / with 200 and a plain text that says OK
\* exactly when the public key is loaded; they answer every request that is
\* neither GET / nor POST /interactions with 404 "Not found"; and neither
\* kind of request is verified, parsed or routed.
C11_HttpRouting ==
  \A s \in Slots :
    (variant # "part_000" /\ reqs[s].pc = "done") =>
      /\ (reqs[s].method = "GET" /\ reqs[s].url = "/") =>
           /\ reqs[s].res.ended = 1
           /\ reqs[s].res.status = 200
           /\ reqs[s].res.body.kind = "text"
           /\ reqs[s].res.body.text \in {"OK", "Status: OK"} <=> PUBLIC_KEY_PEM.loaded
           /\ Unprocessed(s)
      /\ (<<reqs[s].method, reqs[s].url>> \notin {<<"GET", "/">>, <<"POST", "/interactions">>}) =>
           /\ reqs[s].res.ended = 1
           /\ reqs[s].res.status = 404
           /\ reqs[s].res.body.kind = "text"
           /\ reqs[s].res.body.text = "Not found"
           /\ Unprocessed(s)

\* GET / was answered by a server whose key did not load, after a PUT to
\* /interactions or another request was answered
C11_Witness ==
  \E s \in Slots :
    /\ reqs[s].pc = "done"
    /\ served = 2
    /\ reqs[s].method = "GET" /\ reqs[s].url = "/"
    /\ ~PUBLIC_KEY_PEM.loaded /\ variant = "part_001"
    /\ reqs[s].res.body.text = "Status: PUBLIC_KEY_ERROR"

\* the purge command with the option count of value n, run in a guild channel
PurgeOf(n) == Cmd("purge", <<Opt("count", n)>>)

\* C12: a signed purge command whose count is 0, 101, 2.5 or no number is
\* answered with an ephemeral message without any REST call; with count 1 or
\* 100 the first REST call made is the listing of the channel's messages.
C12_PurgeCountValidated ==
  \A s \in Slots :
    (Accepted(s) /\ reqs[s].gen.form = "json") =>
      /\ \A n \in {JNum(0), JNum(101), [t |-> "number", n |-> 2, h |-> TRUE],
                   JStr("abc")} :
           reqs[s].gen.val = PurgeOf(n) =>
             /\ reqs[s].pc = "done"
             /\ MessageResponse(s)
             /\ reqs[s].res.body.envl.flags = EPHEMERAL
             /\ reqs[s].calls = <<>>
      /\ \A n \in {JNum(1), JNum(100)} :
           reqs[s].gen.val = PurgeOf(n) =>
             /\ reqs[s].calls # <<>>
             /\ reqs[s].calls[1].op = "GET messages"
             /\ reqs[s].calls[1].d = n

\* the timeout command with the option duration of value d
TimeoutOf(d) == Cmd("timeout", <<User, Opt("duration", JStr(d))>>)
\* duration strings and the seconds they stand for, 0 for an invalid one
DurationTable ==
  { <<"1d2h30m", 1 * 86400 + 2 * 3600 + 30 * 60>>, <<"10m", 10 * 60>>,
    <<"3s", 3>>, <<"29d", 29 * 86400>>, <<"1h junk", 3600>>, <<" 1 D ", 86400>>,
    <<"abc", 0>>, <<"0m", 0>>, <<"5s", 5>>, <<"28d", 28 * 86400>> }

\* C13: for every timeout command the server has processed, the duration
\* parsed from its option is the sum of its magnitude and unit tokens (a day
\* 86400 s, an hour 3600 s, a minute 60 s), "1d2h30m" giving 95400 s, and is
\* null when the string has no token or sums to zero ("abc", "0m"); the
\* member update that follows carries that duration.
C13_DurationIsSumOfTokens ==
  \A s \in Slots :
    (Accepted(s) /\ reqs[s].gen.form = "json" /\ reqs[s].interaction # JUndef) =>
      \A e \in DurationTable :
        reqs[s].interaction = TimeoutOf(e[1]) =>
          /\ parseDurationToMs(getOption(variant, reqs[s].interaction, "duration"))
               = IF e[2] = 0 THEN [null |-> TRUE, s |-> 0]
                 ELSE [null |-> FALSE, s |-> e[2]]
          /\ reqs[s].calls # <<>> =>
               /\ reqs[s].calls[1].op = "PATCH member"
               /\ reqs[s].calls[1].d = JNum(e[2])

\* the member update of a timeout of "1d2h30m" was issued with 95400 s
C13_Witness ==
  \E s \in Slots :
    /\ Accepted(s)
    /\ reqs[s].interaction = TimeoutOf("1d2h30m")
    /\ reqs[s].calls # <<>>
    /\ reqs[s].calls[1].d = JNum(95400)

\* the request of slot s is a timeout command with a duration the handler is
\* to refuse: no token, zero, above 28 days
BadTimeout(s) ==
  IF variant = "part_000"
  THEN /\ reqs[s].pc \in {"gw-await", "done"}
       /\ reqs[s].gi.chat /\ reqs[s].gi.name = "timeout"
       /\ reqs[s].gi.guild /\ reqs[s].gi.user
       /\ \E d \in {"abc", "0m", "29d"} : reqs[s].gi.duration = JStr(d)
  ELSE /\ Accepted(s)
       /\ \E d \in {"abc", "0m", "29d"} : reqs[s].interaction = TimeoutOf(d)

\* C14: for a timeout command whose duration does not parse or is above 28
\* days, no acknowledgment, member fetch or member update is ever issued; an
\* HTTP server answers it 200 with an ephemeral message and no REST call.
C14_BadDurationCallsNothing ==
  \A s \in Slots :
    BadTimeout(s) =>
      /\ \A i \in 1..Len(reqs[s].calls) :
           reqs[s].calls[i].op \notin {"deferReply", "fetch member", "timeout", "PATCH member"}
      /\ (variant # "part_000") =>
           /\ reqs[s].pc = "done"
           /\ MessageResponse(s)
           /\ reqs[s].res.body.envl.flags = EPHEMERAL
           /\ reqs[s].calls = <<>>

\* C15: serverinfo or userinfo invoked without a guild id is answered by an
\* HTTP server with 200 and the ephemeral server-only message, without any
\* REST call; the gateway bot answers serverinfo outside a guild with the
\* ephemeral server-only reply and makes no other call to the platform.
C15_ServerOnlyWithoutGuild ==
  \A s \in Slots :
    /\ (variant # "part_000" /\ Accepted(s) /\ reqs[s].gen.form = "json"
          /\ \E name \in {"serverinfo", "userinfo"} \cap Commands(variant) :
               reqs[s].gen.val \in {DmCmd(name, <<>>), DmCmd(name, <<User>>)})
       => /\ reqs[s].pc = "done"
          /\ reqs[s].res = sendJson(NoRes, 200, Body("json", "", ServerOnly(variant)))
          /\ reqs[s].res.body.envl.flags = EPHEMERAL
          /\ reqs[s].calls = <<>>
    /\ (variant = "part_000" /\ reqs[s].pc \in {"gw-await", "done"}
          /\ reqs[s].gi.chat /\ reqs[s].gi.name = "serverinfo" /\ ~reqs[s].gi.guild)
       => /\ \A i \in 1..Len(reqs[s].calls) : reqs[s].calls[i].op = "reply"
          /\ reqs[s].calls[1].d = reply("Run this inside a server.", JUndef, TRUE)
          /\ (reqs[s].pc = "done" /\ reqs[s].fails = 0) =>
               /\ reqs[s].res.ended = 1
               /\ reqs[s].res.body.envl = reply("Run this inside a server.", JUndef, TRUE)

\* userinfo invoked in a direct message was answered by an HTTP server
C15_Witness ==
  \E s \in Slots :
    /\ Accepted(s)
    /\ reqs[s].pc = "done"
    /\ reqs[s].interaction = DmCmd("userinfo", <<User>>)
    /\ reqs[s].cmd = "userinfo"
    /\ reqs[s].res.status = 200
    /\ reqs[s].res.body.envl.content = "Run this inside a server."

\* C16: whatever the platform answers to the post to the log channel, the
\* handler that awaited it ends with the success envelope it had prepared: an
\* HTTP server answers 200 with that envelope and the request ends Responded;
\* the gateway bot, which has answered already, leaves its answer as it is
\* and makes no further reply.
C16_LogFailureChangesNothing ==
  [][\A s \in Slots :
       /\ (variant # "part_000" /\ reqs[s].pc = "await"
             /\ reqs[s].pending.op = "POST message" /\ reqs'[s] # reqs[s])
          => /\ reqs'[s].pc = "done"
             /\ reqs[s].loc.envl.type = CHANNEL_MESSAGE_WITH_SOURCE
             /\ reqs'[s].res = sendJson(NoRes, 200, Body("json", "", reqs[s].loc.envl))
             /\ reqs'[s].path = Append(reqs[s].path, "Responded")
       /\ (variant = "part_000" /\ reqs[s].pc = "gw-await"
             /\ reqs[s].pending.op \in {"fetch channel", "send"} /\ reqs'[s] # reqs[s])
          => /\ reqs[s].res.ended = 1
             /\ reqs'[s].res = reqs[s].res
             /\ reqs'[s].pc = "done" \/ reqs'[s].pending.op = "send"]_vars

\* a kick whose post to the log channel failed was answered 200
C16_Witness ==
  \E s \in Slots :
    /\ reqs[s].pc = "done"
    /\ reqs[s].cmd = "kick"
    /\ reqs[s].fails = 1
    /\ reqs[s].calls[Len(reqs[s].calls)].op = "POST message"
    /\ reqs[s].res.status = 200
    /\ reqs[s].res.body.envl.content = "Kicked"

\* C17: no handler waits for the post to the log channel before it answers:
\* whenever that post is outstanding (the handler of an HTTP program is
\* suspended on "POST message", the gateway bot on the fetch of the log
\* channel or the send to it), the response of the interaction has been
\* written.
C17_LogIsNotAwaited ==
  \A s \in Slots :
    (\/ reqs[s].pc = "await" /\ reqs[s].pending.op = "POST message"
     \/ reqs[s].pc = "gw-await" /\ reqs[s].pending.op \in {"fetch channel", "send"})
      => reqs[s].res.ended = 1

C20_SetupSerialized ==
  (\A s \in 1..MaxConc :
      /\ reqs[s].pc = "done"
      /\ reqs[s].cmd = "setup"
      /\ reqs[s].fails = 0
      /\ reqs[s].res.status = 200)
    => rules = IF variant = "index"
               THEN { config.guilds["g1"].automod_rule_ids[i] :
                        i \in DOMAIN config.guilds["g1"].automod_rule_ids }
               ELSE {}

\* Liveness: the module's top level runs, and a request in flight takes its
\* next step: the event loop runs the end callback of a request whose body
\* has arrived, and every REST call returns or fails and its handler is
\* resumed.  The second conjunct is WF_vars(OnEnd(s) \/ RestReturn(s)) with
\* ENABLED written out: these steps are enabled exactly when the request is
\* at "received" or "await".
SpecLive ==
  /\ Spec
  /\ WF_vars(Startup)
  /\ \A s \in Slots :
       \/ []<>(reqs[s].pc \notin {"received", "await"})
       \/ []<><<OnEnd(s) \/ RestReturn(s)>>_vars

\* C21: every POST /interactions request whose body has been received is
\* eventually answered, once, with 401, 500 or 200, given that each REST call
\* made for it returns or fails.
C21_EveryRequestAnswered ==
  \A s \in Slots :
    (reqs[s].pc = "received")
      ~> (/\ reqs[s].pc = "done"
          /\ reqs[s].res.ended = 1
          /\ reqs[s].res.status \in {200, 401, 500}
          /\ reqs[s].res.status = 200 => reqs[s].res.body.envl.type # 0)

\* a request whose member removal failed was answered 500
C21_Witness ==
  \E s \in Slots :
    /\ reqs[s].pc = "done"
    /\ reqs[s].gen.val = KickValue
    /\ Len(reqs[s].calls) = 1
    /\ reqs[s].calls[1].op = "DELETE member"
    /\ reqs[s].fails = 1
    /\ reqs[s].res = sendJson(NoRes, 500, ErrorBody("server error"))

\* C22: every POST /interactions request that was not authenticated, whatever
\* the reason (key not loaded, header missing or empty, signature that is no
\* hex, too short or too long, signature of another key, timestamp, body or
\* signature changed after signing), got one and the same response: status
\* 401 with the body {error: "invalid request signature"}.
C22_RejectionUniform ==
  \A s \in Slots :
    (/\ variant # "part_000"
     /\ reqs[s].pc = "done"
     /\ reqs[s].method = "POST" /\ reqs[s].url = "/interactions"
     /\ reqs[s].valid # JBool(TRUE))
    => /\ reqs[s].res.ended = 1
       /\ reqs[s].res.status = 401
       /\ reqs[s].res.body = ErrorBody("invalid request signature")

\* a correctly signed request was rejected by a server whose key did not load
C22_Witness ==
  \E s \in Slots :
    /\ variant = "part_001"
    /\ ~PUBLIC_KEY_PEM.loaded
    /\ reqs[s].pc = "done"
    /\ reqs[s].gen = Gen(PingValue, "json", "good", "good", "none", 0)
    /\ reqs[s].res.status = 401
    /\ reqs[s].res.body = ErrorBody("invalid request signature")

\* C23: no response carries the message of an internal failure: an HTTP
\* server answers a failure with the generic 500 body, and no message the
\* gateway bot writes interpolates the text of the error that was raised.
C23_FailureTextNotEchoed ==
  \A s \in Slots :
    reqs[s].res.ended > 0 =>
      /\ reqs[s].res.status = 500 => reqs[s].res.body = ErrorBody("server error")
      /\ reqs[s].res.body.kind = "message" =>
           ~(/\ reqs[s].res.body.envl.content = "Error"
             /\ reqs[s].res.body.envl.ref.t = "string"
             /\ reqs[s].res.body.envl.ref.len > 0)

\* C24: in the HTTP programs the only message envelopes that are not
\* ephemeral are the answers of ping and serverinfo that succeeded: every
\* message that reports a failure carries the ephemeral flag.  A command the
\* handler's own validation refuses (no guild, no user, a duration of no
\* token, of zero or above 28 days, a count of 0, an unknown subcommand, an
\* unknown command) is answered 200 with an ephemeral message and no REST
\* call: it does not end in the 500 of a handler that threw.
C24_FailuresAreEphemeral ==
  \A s \in Slots :
    (Accepted(s) /\ reqs[s].pc = "done" /\ reqs[s].gen.form = "json") =>
      /\ (reqs[s].res.status = 200
            /\ reqs[s].res.body.envl.type = CHANNEL_MESSAGE_WITH_SOURCE
            /\ reqs[s].res.body.envl.flags # EPHEMERAL)
         => /\ reqs[s].res.body.envl.content \in {"Pong!", "Server Info"}
            /\ reqs[s].fails = 0
      /\ reqs[s].gen.val \in
           { DmCmd("kick", <<User>>), Cmd("kick", <<>>), Cmd("ban", <<>>),
             Cmd("untimeout", <<>>), DmCmd("serverinfo", <<>>),
             DmCmd("setup", <<Sub("view", JUndef)>>),
             Cmd("setup", <<Sub("other", JUndef)>>), Cmd("bogus", <<>>),
             PurgeOf(JNum(0)), TimeoutOf("abc"), TimeoutOf("0m"), TimeoutOf("29d") }
         => /\ MessageResponse(s)
            /\ reqs[s].res.body.envl.flags = EPHEMERAL
            /\ reqs[s].calls = <<>>
            /\ reqs[s].path = <<"Received", "Verified", "Parsed", "Dispatched", "Responded">>

\* a timeout of 29 days was refused with the ephemeral message
C24_Witness ==
  \E s \in Slots :
    /\ Accepted(s)
    /\ reqs[s].pc = "done"
    /\ reqs[s].gen.val = TimeoutOf("29d")
    /\ reqs[s].res.status = 200
    /\ reqs[s].res.body.envl = reply("Invalid duration.", JUndef, TRUE)
    /\ reqs[s].calls = <<>>

\* C25: the key and the command list are set by the module's top level, before
\* any request is served, and no step of a request changes them: requests
\* are taken only by a running process; once the process runs, the loaded
\* key, the program and its environment stay as they are; and the command of
\* every request is resolved against the one command list of the program.
C25_KeyAndCommandsFixed ==
  [][/\ (served' # served \/ reqs' # reqs) =>
          /\ proc = "running"
          /\ PUBLIC_KEY_PEM = IF variant = "part_000" THEN NoPem
                              ELSE publicKeyToPemFromHex(env.PUBLIC_KEY)
     /\ proc # "init" =>
          /\ PUBLIC_KEY_PEM' = PUBLIC_KEY_PEM
          /\ variant' = variant /\ env' = env /\ proc' = proc
     /\ \A s \in Slots :
          reqs'[s].cmd # reqs[s].cmd =>
            reqs'[s].cmd \in Commands(variant) \cup {"", "PONG", "unknown", "throw"}]_vars

\* the second of two requests, a setup command that changed the
\* configuration, was answered by a server whose key is the one loaded at
\* startup
C25_Witness ==
  \E s \in Slots :
    /\ variant = "part_001"
    /\ served = MaxRequests
    /\ PUBLIC_KEY_PEM = [loaded |-> TRUE, key |-> ServerKey]
    /\ reqs[s].pc = "done"
    /\ reqs[s].cmd = "setup"
    /\ reqs[s].res.status = 200
    /\ "g1" \in DOMAIN config.guilds
    /\ config.guilds["g1"].log_channel_id = JStr("c2")

\* C26: a REST call is attempted once: no request issues the same call twice,
\* and when a call that changes the guild (removing, banning or unbanning a
\* member, updating a member, deleting messages) fails, no further call is
\* made for that request: an HTTP server answers it at once, the gateway bot
\* only edits its reply.
C26_SingleAttempt ==
  [][\A s \in Slots :
       /\ \A i, j \in DOMAIN reqs'[s].calls :
            i # j => reqs'[s].calls[i] # reqs'[s].calls[j]
       /\ (reqs[s].pc = "await" /\ reqs'[s].fails = reqs[s].fails + 1
             /\ reqs[s].pending.op \in {"DELETE member", "PUT ban", "DELETE ban",
                                        "PATCH member", "POST bulk-delete"})
          => /\ reqs'[s].pc = "done"
             /\ reqs'[s].calls = reqs[s].calls
             /\ reqs'[s].res.ended = 1
       /\ (reqs[s].pc = "gw-await" /\ reqs'[s].fails = reqs[s].fails + 1
             /\ reqs[s].pending.op \in {"kick", "ban", "timeout", "bulkDelete"})
          => /\ reqs'[s].pending.op = "editReply"
             /\ reqs'[s].calls = Append(reqs[s].calls, reqs'[s].pending)]_vars

\* a ban that the platform refused was answered 500 after its one call
C26_Witness ==
  \E s \in Slots :
    /\ variant = "index"
    /\ reqs[s].pc = "done"
    /\ reqs[s].cmd = "ban"
    /\ Len(reqs[s].calls) = 1
    /\ reqs[s].calls[1].op = "PUT ban"
    /\ reqs[s].fails = 1
    /\ reqs[s].res.status = 500

\* C27: in the HTTP programs a command is run exactly when the name in the
\* request is the name of a command, character for character: "Kick",
\* "kick " and " kick" and "SETUP" get the unknown-command answer and no REST
\* call.  For setup in a guild the name of the first option alone selects
\* what is done (view when there is none), whatever options follow it, and a
\* name that differs in case from a subcommand's selects none.
C27_ExactNameAndFirstOption ==
  \A s \in Slots :
    (Accepted(s) /\ reqs[s].gen.form = "json" /\ reqs[s].gen.val # JNull
       /\ reqs[s].cmd # "" /\ Prop(reqs[s].gen.val, "type") = JNum(2)) =>
      LET val == reqs[s].gen.val
          name == OptProp(Prop(val, "data"), "name")
          sub == OptProp(OptFirst(OptProp(Prop(val, "data"), "options")), "name")
      IN /\ reqs[s].cmd = IF name.t = "string" /\ name.s \in Commands(variant)
                          THEN name.s ELSE "unknown"
         /\ val \in { Cmd("Kick", <<User>>), Cmd("kick ", <<User>>),
                      Cmd(" kick", <<User>>), Cmd("SETUP", <<Sub("view", JUndef)>>) }
            => /\ reqs[s].pc = "done"
               /\ reqs[s].res.body.envl = UnknownCommand(variant)
               /\ reqs[s].calls = <<>>
         /\ (reqs[s].cmd = "setup" /\ reqs[s].pc = "done" /\ reqs[s].res.status = 200
               /\ Truthy(Prop(val, "guild_id")))
            => reqs[s].res.body.envl.content =
                 IF ~Truthy(sub) \/ IsStr(sub, "view") THEN "Current Settings"
                 ELSE IF IsStr(sub, IF variant = "index" THEN "logging" ELSE "logs")
                 THEN "Log channel set"
                 ELSE IF variant = "index" /\ IsStr(sub, "automod") THEN "AutoMod Applied"
                 ELSE "Unknown setup option."

\* a setup command whose first option is view and whose second is logs was
\* answered with the settings, and the log channel was not set
C27_Witness ==
  \E s \in Slots :
    /\ variant = "part_001"
    /\ Accepted(s)
    /\ reqs[s].pc = "done"
    /\ served = 1
    /\ reqs[s].gen.val = Cmd("setup", <<Sub("view", JUndef),
                                        Sub("logs", JArr(<<Opt("channel", JStr("c2"))>>))>>)
    /\ reqs[s].res.body.envl.content = "Current Settings"
    /\ config.guilds["g1"].log_channel_id # JStr("c2")

\* C28: the router states a POST /interactions request goes through are a
\* prefix of Received, Verified, Parsed, Dispatched, Responded, or Received,
\* Rejected, or Received, Verified [, Parsed [, Dispatched]], Errored; a step
\* of the request only appends to them; REST calls are made only for a
\* request that is Dispatched, whose signature was verified and whose body
\* was decoded; Rejected comes with an invalid signature and 401, Errored
\* with 500, Responded with 200; and after Responded, Rejected or Errored
\* the request takes no further step (its connection closes).
C28_ForwardOnlyStates ==
  [][\A s \in Slots :
       LET old == reqs[s].path
           new == reqs'[s].path
           last == new[Len(new)]
           Forward == <<"Received", "Verified", "Parsed", "Dispatched", "Responded">>
       IN /\ (new # <<>> /\ reqs'[s] # reqs[s]) =>
               /\ Len(old) <= Len(new) /\ SubSeq(new, 1, Len(old)) = old
               /\ \/ \E n \in 1..Len(Forward) : new = SubSeq(Forward, 1, n)
                  \/ new = <<"Received", "Rejected">>
                  \/ \E n \in 2..4 : new = Append(SubSeq(Forward, 1, n), "Errored")
               /\ reqs'[s].calls # <<>> =>
                    /\ SubSeq(new, 1, 4) = SubSeq(Forward, 1, 4)
                    /\ reqs'[s].valid = JBool(TRUE)
                    /\ reqs'[s].interaction # JUndef
               /\ last = "Rejected" =>
                    reqs'[s].valid = JBool(FALSE) /\ reqs'[s].res.status = 401
               /\ last = "Errored" => reqs'[s].res.status = 500
               /\ last = "Responded" => reqs'[s].res.status = 200
               /\ (last \in {"Responded", "Rejected", "Errored"}) <=> reqs'[s].pc = "done"
               /\ reqs'[s].pc = "done" => reqs'[s].res.ended = 1
          /\ (old # <<>> /\ reqs[s].pc = "done" /\ reqs'[s] # reqs[s]) =>
               reqs'[s] = IdleReq]_vars

\* a request whose body is no JSON went from Verified to Errored
C28_Witness ==
  \E s \in Slots :
    /\ reqs[s].pc = "done"
    /\ reqs[s].gen.form = "truncated"
    /\ reqs[s].valid = JBool(TRUE)
    /\ reqs[s].path = <<"Received", "Verified", "Errored">>
    /\ reqs[s].res.status = 500

\* C29: whenever no setup command is in flight, the rule ids stored for the
\* guild are exactly the AutoMod rules the bot has created and that exist on
\* the platform.
C29_StoredIdsAreTheRules ==
  (variant = "index" /\ \A s \in Slots : reqs[s].pc \in {"idle", "done"})
    => rules = IF "g1" \in DOMAIN config.guilds
               THEN { config.guilds["g1"].automod_rule_ids[i] :
                        i \in DOMAIN config.guilds["g1"].automod_rule_ids }
               ELSE {}

\* C30: in the HTTP programs every kick, ban, unban and member update call
\* that is issued carries a guild id and a user id that are present (truthy
\* in the handler's test); a kick, ban, unban, timeout or untimeout command
\* sent without a guild id, with an empty one, without the user option or
\* with an empty user is answered 200 with the ephemeral "Missing guild/user"
\* message, and no call at all is made for it.
C30_NoMutatingCallWithoutIds ==
  \A s \in Slots :
    /\ \A i \in 1..Len(reqs[s].calls) :
         reqs[s].calls[i].op \in {"DELETE member", "PUT ban", "DELETE ban", "PATCH member"}
           => /\ reqs[s].calls[i].g \in {JStr("g1"), JStr("g2")}
              /\ reqs[s].calls[i].x \in {JStr("u1"), JStr("u2")}
    /\ (variant # "part_000" /\ Accepted(s) /\ reqs[s].gen.form = "json"
          /\ reqs[s].cmd \in {"kick", "ban", "unban", "timeout", "untimeout"}
          /\ reqs[s].gen.val \in
               { DmCmd("kick", <<User>>), DmCmd("ban", <<User>>),
                 DmCmd("untimeout", <<User>>),
                 DmCmd("unban", <<Opt("user_id", JStr("u1"))>>),
                 DmCmd("timeout", <<User, Opt("duration", JStr("10m"))>>),
                 Cmd("kick", <<>>), Cmd("ban", <<>>), Cmd("unban", <<>>),
                 Cmd("untimeout", <<>>),
                 Cmd("unban", <<Opt("user_id", JStr(""))>>),
                 Cmd("kick", <<Opt("user", JStr(""))>>),
                 Cmd("timeout", <<Opt("duration", JStr("10m"))>>),
                 Interaction(JNum(2), Data(JStr("kick"), JArr(<<User>>)),
                             JStr(""), JStr("c1")),
                 Interaction(JNum(2), Data(JStr("kick"), JUndef),
                             JStr("g1"), JStr("c1")) })
       => /\ reqs[s].pc = "done"
          /\ MessageResponse(s)
          /\ reqs[s].res.body.envl =
               reply(IF reqs[s].cmd = "unban" THEN "Missing guild/user_id."
                     ELSE "Missing guild/user.", JUndef, TRUE)
          /\ reqs[s].res.body.envl.flags = EPHEMERAL
          /\ reqs[s].calls = <<>>

\* an unban command without the user_id option was answered with the
\* ephemeral message and no call
C30_Witness ==
  \E s \in Slots :
    /\ variant = "index"
    /\ Accepted(s)
    /\ reqs[s].pc = "done"
    /\ reqs[s].gen.val = Cmd("unban", <<>>)
    /\ reqs[s].cmd = "unban"
    /\ reqs[s].res.status = 200
    /\ reqs[s].res.body.envl.content = "Missing guild/user_id."
    /\ reqs[s].calls = <<>>
    /\ served = 1

\* C31: when the bulk-delete call of a purge fails, an HTTP server answers
\* that request at once with 200 and the ephemeral "could not bulk delete"
\* warning: the request ends Responded, not Errored, and no further call (no
\* post to the log channel) is made for it.  The gateway bot then edits its
\* deferred reply to that warning, and a request whose reply was edited to
\* the warning never fetches or writes to the log channel.
C31_BulkDeleteFailureCaught ==
  [][\A s \in Slots :
       /\ (reqs[s].pc = "await" /\ reqs[s].pending.op = "POST bulk-delete"
             /\ reqs'[s].fails = reqs[s].fails + 1)
          => /\ reqs'[s].pc = "done"
             /\ reqs'[s].res = sendJson(NoRes, 200,
                  Body("json", "", reply("Could not bulk delete.", JUndef, TRUE)))
             /\ reqs'[s].res.body.envl.flags = EPHEMERAL
             /\ reqs'[s].path[Len(reqs'[s].path)] = "Responded"
             /\ reqs'[s].calls = reqs[s].calls
             /\ \A i \in 1..Len(reqs'[s].calls) : reqs'[s].calls[i].op # "POST message"
       /\ (reqs[s].pc = "gw-await" /\ reqs[s].pending.op = "bulkDelete"
             /\ reqs'[s].fails = reqs[s].fails + 1)
          => reqs'[s].pending =
               Call("editReply", JUndef, JUndef,
                    reply("Could not bulk delete.", JUndef, TRUE))
       /\ (\E i \in 1..Len(reqs'[s].calls) :
             /\ reqs'[s].calls[i].op = "editReply"
             /\ reqs'[s].calls[i].d.content = "Could not bulk delete.")
          => \A i \in 1..Len(reqs'[s].calls) :
               reqs'[s].calls[i].op \notin {"fetch channel", "send"}]_vars

\* a purge whose bulk delete was refused has been answered with the warning
\* after its two calls, by a server whose guild has a log channel
C31_Witness ==
  \E s \in Slots :
    /\ variant = "part_001"
    /\ reqs[s].pc = "done"
    /\ reqs[s].cmd = "purge"
    /\ Len(reqs[s].calls) = 2
    /\ reqs[s].calls[2].op = "POST bulk-delete"
    /\ reqs[s].fails = 1
    /\ reqs[s].res.status = 200
    /\ reqs[s].res.body.envl.content = "Could not bulk delete."
    /\ "g1" \in DOMAIN config.guilds
    /\ Truthy(config.guilds["g1"].log_channel_id)

\* C32: the step that issues the post to the log channel is, in an HTTP
\* program, the step in which the command's call that changes the guild
\* (kick, ban, unban, member update, bulk delete, rule creation) returned
\* with success; for every command but setup no call of the request has
\* failed before it; the guild has a log channel then and the post goes to
\* that channel.  In the gateway bot the log channel is fetched only by a
\* request none of whose calls failed, which has made its change, and whose
\* guild has a log channel; the message is sent only after that fetch.
C32_LogOnlyAfterSuccess ==
  [][\A s \in Slots :
       /\ (reqs'[s].calls # reqs[s].calls /\ reqs'[s].pending.op = "POST message")
          => /\ reqs'[s].calls = Append(reqs[s].calls, reqs'[s].pending)
             /\ reqs[s].cmd # "setup"
                => /\ reqs[s].pc = "await"
                   /\ reqs[s].pending.op \in {"DELETE member", "PUT ban", "DELETE ban",
                                              "PATCH member", "POST bulk-delete"}
                   /\ reqs'[s].fails = 0
             /\ reqs[s].pending.op \notin {"DELETE rule", "none"}
                => reqs'[s].fails = reqs[s].fails
             /\ "g1" \in DOMAIN config'.guilds
             /\ Truthy(config'.guilds["g1"][LogField(variant)])
             /\ reqs'[s].pending.g = config'.guilds["g1"][LogField(variant)]
       /\ (reqs'[s].calls # reqs[s].calls /\ reqs'[s].pending.op = "fetch channel")
          => /\ reqs'[s].fails = 0
             /\ reqs[s].pending.op \in {"editReply", "reply"}
             /\ \/ reqs[s].gi.name = "setup"
                \/ \E i \in 1..Len(reqs[s].calls) :
                     reqs[s].calls[i].op \in {"kick", "ban", "timeout", "bulkDelete"}
             /\ "g1" \in DOMAIN config'.guilds
             /\ Truthy(config'.guilds["g1"].log_channel_id)
       /\ (reqs'[s].calls # reqs[s].calls /\ reqs'[s].pending.op = "send")
          => /\ reqs[s].pending.op = "fetch channel"
             /\ reqs'[s].fails = 0]_vars

\* a kick that succeeded is followed by the post to the guild's log channel
C32_Witness ==
  \E s \in Slots :
    /\ variant = "part_001"
    /\ reqs[s].pc = "await"
    /\ reqs[s].cmd = "kick"
    /\ reqs[s].fails = 0
    /\ Len(reqs[s].calls) = 2
    /\ reqs[s].calls[1].op = "DELETE member"
    /\ reqs[s].calls[2].op = "POST message"
    /\ reqs[s].calls[2].g = config.guilds["g1"].log_channel_id

\* C33: every member update issued for a timeout command carries a duration
\* of at least 5 seconds and at most 28 days (counted in seconds), the one
\* parsed from the command's option: "5s" and "28d" are accepted, "3s" and
\* "29d" make no update; every member update issued for an untimeout command
\* carries null, and an untimeout with a guild and a user is issued without
\* any duration by a server that has its token.
C33_TimeoutWithinLimits ==
  \A s \in Slots :
    /\ \A i \in 1..Len(reqs[s].calls) :
         LET call == reqs[s].calls[i]
             name == IF variant = "part_000" THEN reqs[s].gi.name ELSE reqs[s].cmd
         IN call.op \in {"PATCH member", "timeout"} =>
              IF name = "untimeout" THEN call.d = JNull
              ELSE /\ name = "timeout"
                   /\ call.d.t = "number"
                   /\ call.d.n >= 5
                   /\ call.d.n <= 28 * 24 * 60 * 60
    /\ (variant # "part_000" /\ Accepted(s) /\ reqs[s].gen.form = "json"
          /\ env.DISCORD_TOKEN) =>
         /\ reqs[s].gen.val = Cmd("untimeout", <<User>>)
            => reqs[s].calls[1] = Call("PATCH member", JStr("g1"), JStr("u1"), JNull)
         /\ reqs[s].gen.val = TimeoutOf("5s")
            => reqs[s].calls[1] = Call("PATCH member", JStr("g1"), JStr("u1"), JNum(5))
         /\ reqs[s].gen.val = TimeoutOf("28d")
            => reqs[s].calls[1] =
                 Call("PATCH member", JStr("g1"), JStr("u1"), JNum(28 * 24 * 60 * 60))
         /\ reqs[s].gen.val \in {TimeoutOf("3s"), TimeoutOf("29d")}
            => reqs[s].calls = <<>>
    /\ (variant = "part_000" /\ reqs[s].gi.name = "timeout"
          /\ reqs[s].gi.duration \in {JStr("3s"), JStr("29d")})
       => \A i \in 1..Len(reqs[s].calls) : reqs[s].calls[i].op # "timeout"

\* the gateway bot has issued the timeout of 28 days, the longest allowed
C33_Witness ==
  \E s \in Slots :
    /\ variant = "part_000"
    /\ reqs[s].pc = "gw-await"
    /\ reqs[s].gi.name = "timeout"
    /\ reqs[s].gi.duration = JStr("28d")
    /\ reqs[s].pending = Call("timeout", JStr("g1"), JUndef, JNum(28 * 24 * 60 * 60))

\* C34: while the server runs, the log channel stored for guild g1 changes
\* only in the step of a setup logs (setup logging) command for g1, which
\* stores the channel it was given, in memory and in the file; every answer
\* to setup view reports the channel stored at that time and every post to a
\* log channel goes to it; and no step changes what is stored for another
\* guild, in memory or in the file.
C34_LogChannelKept ==
  [][LET LogOf(cfg) == IF "g1" \in DOMAIN cfg.guilds
                       THEN cfg.guilds["g1"][LogField(variant)] ELSE JNull
     IN
     /\ \A g \in DOMAIN config.guilds \ {"g1"} :
          g \in DOMAIN config'.guilds /\ config'.guilds[g] = config.guilds[g]
     /\ \A g \in DOMAIN disk.guilds \ {"g1"} :
          g \in DOMAIN disk'.guilds /\ disk'.guilds[g] = disk.guilds[g]
     /\ (proc = "running" /\ LogOf(config') # LogOf(config))
        => \E s \in Slots :
             /\ reqs'[s] # reqs[s]
             /\ disk' = config'
             /\ IF variant = "part_000"
                THEN /\ reqs'[s].gi.name = "setup" /\ reqs'[s].gi.sub = "logs"
                     /\ reqs'[s].gi.channel
                     /\ LogOf(config') = JStr("c2")
                ELSE /\ reqs'[s].cmd = "setup"
                     /\ reqs'[s].pc = "done"
                     /\ reqs'[s].res.status = 200
                     /\ reqs'[s].res.body.envl = reply("Log channel set", LogOf(config'), TRUE)
                     /\ OptProp(OptFirst(OptProp(Prop(reqs'[s].interaction, "data"), "options")),
                                "name")
                          = JStr(IF variant = "index" THEN "logging" ELSE "logs")
     /\ \A s \in Slots :
          /\ (reqs'[s].res # reqs[s].res /\ reqs'[s].res.status = 200
                /\ reqs'[s].res.body.envl.type = CHANNEL_MESSAGE_WITH_SOURCE
                /\ reqs'[s].res.body.envl.content = "Current Settings")
             => reqs'[s].res.body.envl.ref = LogOf(config')
          /\ (reqs'[s].calls # reqs[s].calls /\ reqs'[s].pending.op = "reply"
                /\ reqs'[s].pending.d.content = "Current Setup")
             => reqs'[s].pending.d.ref = LogOf(config')
          /\ (reqs'[s].calls # reqs[s].calls /\ reqs'[s].pending.op = "POST message")
             => reqs'[s].pending.g = LogOf(config')
          /\ (reqs'[s].calls # reqs[s].calls /\ reqs'[s].pending.op = "fetch channel")
             => reqs'[s].pending.x = LogOf(config')]_vars

\* the second command of a server whose file named two guilds: a kick, whose
\* log goes to the channel c2 set by the command before it, while guild g2
\* keeps its channel
C34_Witness ==
  \E s \in Slots :
    /\ variant = "part_001"
    /\ served = 2
    /\ reqs[s].cmd = "kick"
    /\ reqs[s].pc = "await"
    /\ reqs[s].pending = Call("POST message", JStr("c2"), JUndef, JUndef)
    /\ config.guilds["g1"].log_channel_id = JStr("c2")
    /\ "g2" \in DOMAIN config.guilds
    /\ config.guilds["g2"].log_channel_id = JStr("c1")

\* C35: the step in which the server starts a setup automod command stores,
\* in memory and in the file, the guild's settings with exactly the options
\* given as a boolean (anti_spam, mention_spam, block_invites) or as a number
\* (mention_limit) replaced: no option, or mention_spam "abc", or
\* mention_limit "abc" with block_invites 1, leave all four settings as they
\* were.  No other step of a running server changes the settings.
C35_AutomodOnlySuppliedSettings ==
  [][LET Auto(cfg) == IF "g1" \in DOMAIN cfg.guilds
                      THEN cfg.guilds["g1"].automod
                      ELSE DefaultGuildCfg("index").automod
         AutomodOf(opts) == Cmd("setup", <<Sub("automod", opts)>>)
         Same == { AutomodOf(JUndef),
                   AutomodOf(JArr(<<Opt("mention_spam", JStr("abc"))>>)),
                   AutomodOf(JArr(<<Opt("mention_limit", JStr("abc")),
                                    Opt("block_invites", JNum(1))>>)) }
         AntiSpamOff == AutomodOf(JArr(<<Opt("anti_spam", JBool(FALSE))>>))
         InvitesAndLimit == AutomodOf(JArr(<<Opt("block_invites", JBool(TRUE)),
                                             Opt("mention_limit", JNum(3))>>))
     IN variant = "index" =>
       /\ \A s \in Slots :
            (reqs[s].pc = "received" /\ reqs'[s].cmd = "setup") =>
              /\ reqs'[s].gen.val \in Same => Auto(config') = Auto(config)
              /\ reqs'[s].gen.val = AntiSpamOff
                 => Auto(config') = [Auto(config) EXCEPT !.anti_spam = FALSE]
              /\ reqs'[s].gen.val = InvitesAndLimit
                 => Auto(config') = [Auto(config) EXCEPT !.block_invites = TRUE,
                                                         !.mention_limit = 3]
              /\ reqs'[s].gen.val \in Same \cup {AntiSpamOff, InvitesAndLimit}
                 => Auto(disk') = Auto(config')
       /\ (proc = "running" /\ Auto(config') # Auto(config))
          => \E s \in Slots :
               /\ reqs[s].pc = "received"
               /\ reqs'[s].cmd = "setup"
               /\ reqs'[s].gen.val \in {AntiSpamOff, InvitesAndLimit}]_vars

\* the second command of a server gave mention_spam as a string: anti_spam,
\* turned off by the command before it, and the other settings are kept
C35_Witness ==
  \E s \in Slots :
    /\ variant = "index"
    /\ served = 2
    /\ reqs[s].pc = "done"
    /\ reqs[s].res.status = 200
    /\ reqs[s].gen.val = Cmd("setup", <<Sub("automod", JArr(<<Opt("mention_spam", JStr("abc"))>>))>>)
    /\ config.guilds["g1"].automod =
         [anti_spam |-> FALSE, mention_spam |-> TRUE, mention_limit |-> 5,
          block_invites |-> FALSE]

\* C36: a setup automod command first issues one deletion for each rule id
\* stored for the guild, in their order, before anything else: its first call
\* deletes the first stored id, and it leaves the deletions only when as many
\* were issued as ids were stored.  When the command is answered "AutoMod
\* Applied", its calls are those deletions, then one rule creation for each
\* setting among anti_spam, mention_spam and block_invites that is on, in
\* that order, then at most the post to the log channel; the ids stored, in
\* memory and in the file, are the ids of the rules created by this command,
\* which exist, and the number reported is the number of settings that are on.
C36_ApplyAutomodExact ==
  [][\A s \in Slots :
       LET r == reqs[s]
           q == reqs'[s]
           ids == IF "g1" \in DOMAIN config.guilds
                  THEN config.guilds["g1"].automod_rule_ids ELSE <<>>
           IsAutomod(x) ==
             /\ x.cmd = "setup"
             /\ IsStr(OptProp(OptFirst(OptProp(Prop(x.interaction, "data"), "options")),
                              "name"), "automod")
       IN (variant = "index" /\ IsAutomod(q) /\ q.pc \in {"await", "done"}) =>
         /\ (r.pc = "received" /\ ids # <<>>)
            => q.pending = Call("DELETE rule", JStr("g1"), JNum(ids[1]), JUndef)
         /\ (r.pc = "received" /\ ids = <<>>) => q.pending.op # "DELETE rule"
         /\ (r.pc = "await" /\ r.pending.op = "DELETE rule")
            => /\ Len(r.calls) <= Len(ids)
               /\ \A j \in 1..Len(r.calls) :
                    r.calls[j] = Call("DELETE rule", JStr("g1"), JNum(ids[j]), JUndef)
               /\ q.pending.op # "DELETE rule" => Len(r.calls) = Len(ids)
         /\ (r.pc = "await" /\ r.pending.op # "DELETE rule")
            => q.pending.op # "DELETE rule"
         /\ (q.pc = "done" /\ q.res.status = 200
               /\ q.res.body.envl.content = "AutoMod Applied")
            => LET a == config'.guilds["g1"].automod
                   on == << a.anti_spam, a.mention_spam, a.block_invites >>
                   stages == { i \in 1..3 : on[i] }
                   posts == { j \in 1..Len(q.calls) : q.calls[j].op = "POST rule" }
                   stored == config'.guilds["g1"].automod_rule_ids
               IN /\ Cardinality(posts) = Cardinality(stages)
                  /\ { q.calls[j].x.n : j \in posts } = stages
                  /\ \A i, j \in posts : i < j => q.calls[i].x.n < q.calls[j].x.n
                  /\ \A i \in posts, j \in 1..Len(q.calls) :
                       q.calls[j].op = "DELETE rule" => j < i
                  /\ \A j \in 1..Len(q.calls) :
                       q.calls[j].op \in {"DELETE rule", "POST rule", "POST message"}
                  /\ Len(stored) = Cardinality(stages)
                  /\ \A i \in 1..Len(stored) :
                       stored[i] = nextRule' - Len(stored) + i - 1
                  /\ { stored[i] : i \in 1..Len(stored) } \subseteq rules'
                  /\ disk'.guilds["g1"].automod_rule_ids = stored
                  /\ q.res.body.envl.ref = JNum(Len(stored))]_vars

\* the second setup automod of a server deleted the rule of the first and
\* created one rule, whose id is the one stored
C36_Witness ==
  \E s \in Slots :
    /\ variant = "index"
    /\ served = 2
    /\ reqs[s].pc = "done"
    /\ reqs[s].cmd = "setup"
    /\ reqs[s].res.status = 200
    /\ reqs[s].res.body.envl.content = "AutoMod Applied"
    /\ reqs[s].fails = 0
    /\ Len(reqs[s].calls) >= 2
    /\ reqs[s].calls[1] = Call("DELETE rule", JStr("g1"), JNum(1), JUndef)
    /\ reqs[s].calls[2].op = "POST rule"
    /\ config.guilds["g1"].automod_rule_ids = <<2>>
    /\ rules = {2}

\* C37: in the gateway bot, when the fetch of the target member fails for a
\* kick, timeout or untimeout command, the handler's next call is the edit of
\* its deferred reply to "User not found in this server."; a request that
\* made this edit has issued no kick and no timeout, and never fetches or
\* writes to the log channel.
C37_UnknownMemberStops ==
  [][\A s \in Slots :
       LET NotFound == Call("editReply", JUndef, JUndef,
                            reply("User not found in this server.", JUndef, TRUE))
       IN /\ (reqs[s].pc = "gw-await" /\ reqs[s].pending.op = "fetch member"
                /\ reqs'[s].fails = reqs[s].fails + 1)
             => /\ reqs[s].gi.name \in {"kick", "timeout", "untimeout"}
                /\ reqs[s].deferred
                /\ reqs'[s].pending = NotFound
                /\ reqs'[s].calls = Append(reqs[s].calls, NotFound)
          /\ (\E i \in 1..Len(reqs'[s].calls) : reqs'[s].calls[i] = NotFound)
             => \A i \in 1..Len(reqs'[s].calls) :
                  reqs'[s].calls[i].op \notin {"kick", "timeout", "ban", "fetch channel", "send"}]_vars

\* an untimeout for a user who is no member has ended with the reply edited
\* to the message, after the deferral, the fetch and the edit only
C37_Witness ==
  \E s \in Slots :
    /\ variant = "part_000"
    /\ reqs[s].pc = "done"
    /\ reqs[s].gi.name = "untimeout"
    /\ reqs[s].fails = 1
    /\ Len(reqs[s].calls) = 3
    /\ reqs[s].calls[2].op = "fetch member"
    /\ reqs[s].res.ended = 1
    /\ reqs[s].res.body.envl.content = "User not found in this server."

\* C38: the duration parsed from a timeout command's option is fixed by the
\* tokens (a number, then a unit d, h, m or s, spaces allowed between them)
\* that occur in the lower-cased text, wherever they stand: "10m", "x10m",
\* "10min" and "10 M" all give 600 s, "1h junk" gives one hour, "1h,30m"
\* gives 5400 s, "1.5h" gives the 5 hours of its one token; the parse fails
\* exactly for the texts without a token ("abc", "m10") or whose tokens sum
\* to zero ("0m").  The member update issued for the command carries the sum.
C38_DurationUnanchored ==
  LET Tokens ==
        { <<"10m", <<<<10, 60>>>>>>, <<"x10m", <<<<10, 60>>>>>>,
          <<"10min", <<<<10, 60>>>>>>, <<"10 M", <<<<10, 60>>>>>>,
          <<" 1 D ", <<<<1, 86400>>>>>>, <<"1h junk", <<<<1, 3600>>>>>>,
          <<"1h,30m", <<<<1, 3600>>, <<30, 60>>>>>>,
          <<"1d2h30m", <<<<1, 86400>>, <<2, 3600>>, <<30, 60>>>>>>,
          <<"1.5h", <<<<5, 3600>>>>>>,
          <<"0m", <<<<0, 60>>>>>>, <<"abc", <<>>>>, <<"m10", <<>>>> }
      Total(ts) ==
        LET sum[i \in 0..Len(ts)] ==
              IF i = 0 THEN 0 ELSE sum[i - 1] + ts[i][1] * ts[i][2]
        IN sum[Len(ts)]
      Expected(ts) ==
        IF ts = <<>> \/ Total(ts) <= 0 THEN [null |-> TRUE, s |-> 0]
        ELSE [null |-> FALSE, s |-> Total(ts)]
  IN \A s \in Slots : \A e \in Tokens :
       /\ (variant # "part_000" /\ Accepted(s) /\ reqs[s].gen.form = "json"
             /\ reqs[s].cmd = "timeout" /\ reqs[s].gen.val = TimeoutOf(e[1]))
          => /\ parseDurationToMs(OptProp(Find(OptProp(Prop(reqs[s].interaction, "data"),
                                                       "options"), "duration"), "value"))
                  = Expected(e[2])
             /\ (reqs[s].pc = "done" /\ Expected(e[2]).null)
                => /\ reqs[s].calls = <<>>
                   /\ reqs[s].res.body.envl.content = "Invalid duration."
             /\ (env.DISCORD_TOKEN /\ ~Expected(e[2]).null)
                => reqs[s].calls[1] =
                     Call("PATCH member", JStr("g1"), JStr("u1"), JNum(Total(e[2])))
       /\ (variant = "part_000" /\ reqs[s].gi.name = "timeout"
             /\ reqs[s].gi.duration = JStr(e[1]))
          => /\ parseDurationToMs(reqs[s].gi.duration) = Expected(e[2])
             /\ \A i \in 1..Len(reqs[s].calls) :
                  reqs[s].calls[i].op = "timeout"
                    => /\ ~Expected(e[2]).null
                       /\ reqs[s].calls[i].d = JNum(Total(e[2]))

\* a timeout of "1h junk" was issued as a timeout of one hour
C38_Witness ==
  \E s \in Slots :
    /\ variant = "index"
    /\ Accepted(s)
    /\ reqs[s].cmd = "timeout"
    /\ reqs[s].gen.val = TimeoutOf("1h junk")
    /\ reqs[s].calls # <<>>
    /\ reqs[s].calls[1] = Call("PATCH member", JStr("g1"), JStr("u1"), JNum(3600))

=============================================================================
